---------------------------- MODULE Spec2Model ----------------------------
(***************************************************************************)
(* VncConnection (veyon core): the connection driver thread (run,          *)
(* establishConnection, handleConnection, closeConnection, sendEvents),    *)
(* the codec callbacks (hookInitFrameBuffer, hookFinishFrameBufferUpdate,  *)
(* ...), and the inward operations called from other threads (stop,        *)
(* restart, image, scaledFramebuffer, setScaledSize, mouseEvent, ...).     *)
(*                                                                         *)
(* Every atomic access of the code (m_state, m_framebufferState,           *)
(* m_controlFlags), every critical section and every codec call is one     *)
(* step, so that the caller threads interleave with the driver thread at   *)
(* the places where the code lets them.                                    *)
(***************************************************************************)
EXTENDS Integers, Sequences, FiniteSets

\* ------------------------------------------------------------------ bounds

\* number of events the producer threads create in one behaviour
MaxEvents == 2

\* number of pixel arrays that can be allocated at the same time
MaxBuffers == 3

\* largest scaled size a caller asks for
MaxSize == 1

\* longest time, in ticks, that one wait of the driver thread takes
MaxTick == 2

\* the time without a full update request is counted up to this many ticks
MaxSilence == 8

\* the configured watchdog timeout (vncConnectionFramebufferUpdateWatchdogTimeout),
\* in ticks
m_framebufferUpdateWatchdogTimeout == 3

\* ------------------------------------------------------------------ values

States == { "Disconnected", "Connecting", "Connected", "HostOffline",
            "ServerNotRunning", "AuthenticationFailed", "ConnectionFailed" }

FramebufferStates == { "Invalid", "Initialized", "Valid" }

ControlFlags == { "ScaledFramebufferNeedsUpdate", "ServerReachable",
                  "TerminateThread", "RestartConnection", "DeleteAfterFinished",
                  "SkipHostPing", "RequiresManualUpdateRateControl",
                  "TriggerFramebufferUpdate" }

\* threads that produce input events
Producers == { "p1", "p2" }

\* pixel arrays (new RfbPixel[]): 0 is the null image
Buffers == 1..MaxBuffers

\* sizes of the scaled image: 0 is the null size / null image
Sizes == 0..MaxSize

VARIABLES
    pc,                   \* position of the driver thread (QThread::run)
    m_state,              \* std::atomic<State>
    m_framebufferState,   \* std::atomic<FramebufferState>
    m_controlFlags,       \* atomic bitset, as the set of the bits that are set
    m_client,             \* "nullptr" or "client": the driver's rfbClient pointer
    clientAlive,          \* the rfbClient structure m_client was given still exists
    clientData,           \* the client's registration slot (VncConnectionTag)
    frameBuffer,          \* m_client->frameBuffer: the array the codec writes to
    clientInitialized,    \* establishConnection's local
    hookFrom,             \* which codec call is running hookInitFrameBuffer
    pingReply,            \* establishConnection: what ping( m_host ) returned
    m_eventQueue,         \* QQueue<VncEvent*>
    m_eventQueueMutex,    \* "free" or the thread holding it
    event,                \* sendEvents' local: the event dequeued, 0 if none
    m_imgLock,            \* QReadWriteLock: [writer, readers]
    m_image,              \* the shared image handle: the array it wraps
    heap,                 \* the pixel arrays that are allocated
    refs,                 \* QImage's reference count of each array
    m_scaledSize,         \* QSize
    m_scaledFramebuffer,  \* the size of the scaled image, 0 when null
    scaledOutdated,       \* the framebuffer holds an update, one handed to
                          \* finishFrameBufferUpdate, that is newer than the
                          \* scaled image
    m_framebufferUpdateInterval,
    upc,                  \* position of the caller (UI) thread
    snapshot,             \* the image handle the caller holds, 0 if none
    ppc,                  \* position of each producer thread
    accepted,             \* enqueueEvent calls that passed the state test so far
    timed,                \* whether elapsed times are read from a clock (TRUE) or
                          \* are arbitrary readings (FALSE)
    m_framebufferUpdateWatchdog,  \* QElapsedTimer: ticks since its last restart
    \* history
    appended,             \* events m_eventQueue.enqueue took so far: the n-th is event n
    eventLog,             \* <<event, "fired" | "discarded">> in the order they happened
    stateChangedEmitted,  \* whether the last setState call emitted stateChanged
    stopReturned,         \* stop() has returned at least once
    sinceFullRequest,     \* ticks of silence since the connection was established,
                          \* a server message arrived or a full update request was sent
    deleteRequested,      \* stopAndDeleteLater() has been called
    deleteScheduled,      \* how many times deleteLaterInMainThread() has been called
    \* the settings of the connection; the driver's actions keep none of them
    m_quality,            \* Quality
    appData,              \* the fields of m_client->appData that depend on the quality
    encodingsFrom,        \* "none", or the quality the settings were last updated from
    m_host,               \* QString, as the sequence of its characters
    m_port,               \* int
    serverHost,           \* m_client->serverHost
    serverPort,           \* m_client->serverPort
    hostArg,              \* the argument of setHost
    portArg,              \* the argument of setPort
    portBefore,           \* m_port before the last operation
    lastOp                \* the last operation on host and port that returned

vars == << pc, m_state, m_framebufferState, m_controlFlags, m_client, clientAlive,
           clientData, frameBuffer, clientInitialized, hookFrom, pingReply,
           m_eventQueue,
           m_eventQueueMutex, event, m_imgLock, m_image, heap, refs, m_scaledSize,
           m_scaledFramebuffer, scaledOutdated, m_framebufferUpdateInterval, upc,
           snapshot, ppc,
           accepted, appended, eventLog,
           stateChangedEmitted, stopReturned, timed,
           m_framebufferUpdateWatchdog, sinceFullRequest,
           deleteRequested, deleteScheduled,
           m_quality, appData, encodingsFrom, m_host, m_port, serverHost, serverPort,
           hostArg, portArg, portBefore, lastOp >>

\* groups of variables, for UNCHANGED
clientVars == << m_client, clientAlive, clientData, frameBuffer >>
queueVars  == << m_eventQueue, m_eventQueueMutex, event, appended, eventLog >>
imageVars  == << m_imgLock, m_image, heap, refs >>
scaledVars == << m_scaledSize, m_scaledFramebuffer, scaledOutdated >>
stateVars  == << m_state, stateChangedEmitted >>
callerVars == << upc, snapshot, stopReturned >>
producerVars == << ppc, accepted >>
driverLocals == << clientInitialized, hookFrom, pingReply >>
watchdogVars == << timed, m_framebufferUpdateWatchdog, sinceFullRequest >>
deleteVars == << deleteRequested, deleteScheduled >>
settingsVars == << m_quality, appData, encodingsFrom >>
hostVars == << m_host, m_port, serverHost, serverPort, hostArg, portArg, portBefore,
              lastOp >>
configVars == << settingsVars, hostVars >>

\* ------------------------------------------------------------- control flags

\* a mutation of setControlFlag: the complement is missing in the clearing branch
SetControlFlagNoComplement(flags, flag, on) ==
    IF on THEN flags \cup { flag } ELSE flags \cap { flag }

\* setControlFlag: m_controlFlags |= flag, m_controlFlags &= ~flag
SetControlFlag(flags, flag, on) ==
    IF on THEN flags \cup { flag } ELSE flags \ { flag }

\* isControlFlagSet
IsControlFlagSet(flags, flag) == flag \in flags

\* ------------------------------------------------------------------ setState

\* a mutation of setState: stateChanged is emitted on every call
SetStateEmitsAlways(old, new) == TRUE

\* setState: m_state.exchange( state ) != state
SetStateEmits(old, new) == old # new

\* setState as a step of the driver thread
SetState(new) ==
    /\ m_state' = new
    /\ stateChangedEmitted' = SetStateEmits(m_state, new)

\* ------------------------------------------------------------------ sleeper

\* m_updateIntervalSleeper.wakeAll(): a driver blocked in wait() goes on
WakeAll(p) ==
    CASE p = "est_wait" -> "est_loop"
      [] p = "hc_sleep" -> "se_lock"
      [] OTHER -> p

\* ------------------------------------------------------------------ Init

\* the connection after its constructor: the driver thread, its callers and the
\* history
ConstructedDriver ==
    /\ pc = "idle"
    /\ m_state = "Disconnected"
    /\ m_framebufferState = "Invalid"
    /\ m_controlFlags = {}
    /\ m_client = "nullptr"
    /\ clientAlive = FALSE
    /\ clientData = "nullptr"
    /\ frameBuffer = 0
    /\ clientInitialized = FALSE
    /\ hookFrom = "none"
    /\ pingReply = FALSE
    /\ m_eventQueue = << >>
    /\ m_eventQueueMutex = "free"
    /\ event = 0
    /\ m_imgLock = [ writer |-> FALSE, readers |-> 0 ]
    /\ m_image = 0
    /\ heap = {}
    /\ refs = [ b \in Buffers |-> 0 ]
    /\ m_scaledSize = 0
    /\ m_scaledFramebuffer = 0
    /\ scaledOutdated = FALSE
    /\ m_framebufferUpdateInterval = 0
    /\ upc = "idle"
    /\ snapshot = 0
    /\ ppc = [ p \in Producers |-> "idle" ]
    /\ accepted = 0
    /\ appended = 0
    /\ eventLog = << >>
    /\ stateChangedEmitted = FALSE
    /\ stopReturned = FALSE
    /\ m_framebufferUpdateWatchdog = 0
    /\ sinceFullRequest = 0
    /\ deleteRequested = FALSE
    /\ deleteScheduled = 0

\* m_client->appData of a client structure that was just allocated
ClearedAppData ==
    [ encodingsString |-> "", compressLevel |-> 0, qualityLevel |-> 0,
      enableJPEG |-> FALSE ]

\* the connection after its constructor: m_quality( Quality::High ) and no client
ConstructedSettings ==
    /\ m_quality = "High"
    /\ appData = ClearedAppData
    /\ encodingsFrom = "none"

\* the connection after its constructor: m_host(), m_port( -1 ), no client, and
\* no call of setHost or setPort yet
ConstructedHost ==
    /\ m_host = << >>
    /\ m_port = -1
    /\ serverHost = << >>
    /\ serverPort = 0
    /\ hostArg = << >>
    /\ portArg = -1
    /\ portBefore = -1
    /\ lastOp = "none"

\* the connection after its constructor
Constructed == ConstructedDriver /\ ConstructedSettings /\ ConstructedHost

\* ------------------------------------------------------ host and port

\* vncConnectionRetryInterval of the configuration, in ticks
m_connectionRetryInterval == 1

\* veyonServerPort of the configuration, the value of m_defaultPort
m_defaultPort == 11100

\* the characters of \d and of [0-9a-fA-F:]
Digits == { "0", "1", "2", "3", "4", "5", "6", "7", "8", "9" }
HexColon == Digits \union { "a", "b", "c", "d", "e", "f",
                            "A", "B", "C", "D", "E", "F", ":" }

\* the strings setHost is called with: an address or a name, followed by nothing,
\* by a port or by something that is no port
HostParts ==
    {
      << "e", "x", "a", "m", "p", "l", "e", ".", "l", "o", "c", "a", "l" >>,
      << "1", "0", ".", "0", ".", "0", ".", "5" >>,
      << "2", "0", "0", "1", ":", "d", "b", "8", ":", ":", "1" >>,
      << ":", ":", "f", "f", "f", "f", ":", "1", "0", ".", "0", ".", "0", ".", "5" >>,
      << ":", ":", "F", "F", "F", "F", ":", "1", "0", ".", "0", ".", "0", ".", "5" >>,
      << "[", ":", ":", "f", "f", "f", "f", ":", "1", "0", ".", "0", ".", "0", ".", "5", "]" >>,
      << "[", "2", "0", "0", "1", ":", "d", "b", "8", ":", ":", "1", "]" >>,
      << "f", "e", "8", "0", ":", ":", "1" >>,
      << >>,
      << "h", "o", "s", "t" >>,
      << ":", ":", "f", "f", "f", "f", ":", "1", "2", "3", "4", "5", "6", "7" >>,
      << "[", "h", "o", "s", "t", "]" >>
    }

PortParts ==
    {
      << >>,
      << ":", "5", "9", "0", "0" >>,
      << ":", "5", "9", "0", "1" >>,
      << ":", "0" >>,
      << ":", "1", "2", "3", "4", "5" >>,
      << ":" >>,
      << ":", "5", "9", "x" >>
    }

HostInputs == { h \o t : h \in HostParts, t \in PortParts }

\* the values setPort is called with
PortInputs == { -1, 0, 5900 }

\* X+ for a character class X: a non-empty string of characters of the class
OneOrMore(s, class) == Len(s) > 0 /\ \A i \in 1..Len(s) : s[i] \in class

\* [^:]+
NoColon(s) == Len(s) > 0 /\ \A i \in 1..Len(s) : s[i] # ":"

\* \d+.\d+.\d+.\d+ where the unescaped . is any character
DottedQuad(s) ==
    \E i, j, k \in 1..Len(s) :
        /\ i < j /\ j < k
        /\ OneOrMore(SubSeq(s, 1, i - 1), Digits)
        /\ OneOrMore(SubSeq(s, i + 1, j - 1), Digits)
        /\ OneOrMore(SubSeq(s, j + 1, k - 1), Digits)
        /\ OneOrMore(SubSeq(s, k + 1, Len(s)), Digits)

\* ::[fF]{4}: followed by a dotted quad; the quad starts at character 8
MappedQuad(s) ==
    /\ Len(s) > 7
    /\ s[1] = ":" /\ s[2] = ":"
    /\ \A i \in 3..6 : s[i] \in { "f", "F" }
    /\ s[7] = ":"
    /\ DottedQuad(SubSeq(s, 8, Len(s)))

\* [ ... ]
Bracketed(s) == Len(s) > 1 /\ s[1] = "[" /\ s[Len(s)] = "]"
Inside(s) == SubSeq(s, 2, Len(s) - 1)

\* the position of the last colon of s, 0 if it has none: a pattern ending in
\* :(\d+)$ can only match with this colon before the port
LastColon(s) ==
    IF \E i \in 1..Len(s) : s[i] = ":"
    THEN CHOOSE i \in 1..Len(s) : s[i] = ":" /\ \A j \in (i + 1)..Len(s) : s[j] # ":"
    ELSE 0

BeforePort(s) == SubSeq(s, 1, LastColon(s) - 1)
PortDigits(s) == SubSeq(s, LastColon(s) + 1, Len(s))
EndsInPort(s) == LastColon(s) > 0 /\ OneOrMore(PortDigits(s), Digits)

\* the six patterns of setHost, in the order of the source: whether pattern n
\* matches s
PatternMatches(n, s) ==
    CASE n = 1 -> MappedQuad(s)
      [] n = 2 -> EndsInPort(s) /\ MappedQuad(BeforePort(s))
      [] n = 3 -> /\ EndsInPort(s) /\ Bracketed(BeforePort(s))
                  /\ MappedQuad(Inside(BeforePort(s)))
      [] n = 4 -> /\ EndsInPort(s) /\ Bracketed(BeforePort(s))
                  /\ OneOrMore(Inside(BeforePort(s)), HexColon)
      [] n = 5 -> /\ EndsInPort(s) /\ OneOrMore(BeforePort(s), HexColon)
                  /\ Len(PortDigits(s)) = 5
      [] n = 6 -> EndsInPort(s) /\ NoColon(BeforePort(s))

\* match.captured( 1 ) of pattern n on a string it matches
CapturedHost(n, s) ==
    CASE n = 1 -> SubSeq(s, 8, Len(s))
      [] n = 2 -> SubSeq(BeforePort(s), 8, Len(BeforePort(s)))
      [] n = 3 -> SubSeq(Inside(BeforePort(s)), 8, Len(Inside(BeforePort(s))))
      [] n = 4 -> Inside(BeforePort(s))
      [] n = 5 -> BeforePort(s)
      [] n = 6 -> BeforePort(s)

\* match.captured( 2 ) of pattern n: the first pattern has no second group
CapturedPort(n, s) == IF n = 1 THEN << >> ELSE PortDigits(s)

DigitValue ==
    [ c \in Digits |->
        CASE c = "0" -> 0 [] c = "1" -> 1 [] c = "2" -> 2 [] c = "3" -> 3
          [] c = "4" -> 4 [] c = "5" -> 5 [] c = "6" -> 6 [] c = "7" -> 7
          [] c = "8" -> 8 [] c = "9" -> 9 ]

\* QString::toInt of a string of digits read so far as acc: 0 if the string is
\* empty or the value does not fit an int
RECURSIVE ToIntFrom(_, _, _)
ToIntFrom(s, i, acc) ==
    IF i > Len(s) THEN acc
    ELSE IF acc > 214748364 \/ (acc = 214748364 /\ DigitValue[s[i]] > 7) THEN 0
    ELSE ToIntFrom(s, i + 1, acc * 10 + DigitValue[s[i]])

ToInt(s) == ToIntFrom(s, 1, 0)

\* a mutation of the order of the patterns: the last pattern that matches
LastMatch(s) ==
    IF \E n \in 1..6 : PatternMatches(n, s)
    THEN CHOOSE n \in 1..6 : /\ PatternMatches(n, s)
                             /\ \A m \in (n + 1)..6 : ~PatternMatches(m, s)
    ELSE 0

\* the || chain of setHost: the number of the first pattern that matches, 0 if
\* none does
FirstMatch(s) ==
    IF \E n \in 1..6 : PatternMatches(n, s)
    THEN CHOOSE n \in 1..6 : /\ PatternMatches(n, s)
                             /\ \A m \in 1..(n - 1) : ~PatternMatches(m, s)
    ELSE 0

\* setHost: the host it stores
ParsedHost(s) ==
    IF FirstMatch(s) # 0 /\ CapturedHost(FirstMatch(s), s) # << >>
    THEN CapturedHost(FirstMatch(s), s)
    ELSE s

\* setHost: the port it leaves, port being m_port before
ParsedPort(s, port) ==
    IF FirstMatch(s) # 0 /\ ToInt(CapturedPort(FirstMatch(s), s)) > 0
    THEN ToInt(CapturedPort(FirstMatch(s), s))
    ELSE port

\* a mutation of establishConnection: m_port is given to the client as it is
ServerPortAsStored(port) == port

\* establishConnection: the port given to the client
ServerPort(port) == IF port < 0 THEN m_defaultPort ELSE port

\* a connection about to be given a host and a port
InitHost ==
    /\ ConstructedDriver
    /\ ConstructedSettings
    /\ timed = FALSE
    /\ m_host = << >>
    /\ m_port = -1
    /\ serverHost = << >>
    /\ serverPort = 0
    /\ hostArg \in HostInputs
    /\ portArg \in PortInputs
    /\ portBefore = -1
    /\ lastOp = "none"

\* setHost( hostArg )
SetHost ==
    /\ m_host' = ParsedHost(hostArg)
    /\ m_port' = ParsedPort(hostArg, m_port)
    /\ portBefore' = m_port
    /\ lastOp' = "setHost"
    /\ UNCHANGED << pc, stateVars, m_framebufferState, m_controlFlags, clientVars,
                    driverLocals, queueVars, imageVars, scaledVars,
                    m_framebufferUpdateInterval, callerVars, producerVars,
                    watchdogVars, deleteVars, settingsVars, serverHost, serverPort,
                    hostArg, portArg >>

\* setPort( portArg )
SetPort ==
    /\ m_port' = IF portArg >= 0 THEN portArg ELSE m_port
    /\ portBefore' = m_port
    /\ lastOp' = "setPort"
    /\ UNCHANGED << pc, stateVars, m_framebufferState, m_controlFlags, clientVars,
                    driverLocals, queueVars, imageVars, scaledVars,
                    m_framebufferUpdateInterval, callerVars, producerVars,
                    watchdogVars, deleteVars, settingsVars, m_host, serverHost,
                    serverPort, hostArg, portArg >>

\* establishConnection, under m_globalMutex: serverPort and serverHost of the
\* client are assigned from m_port, m_defaultPort and m_host
EstCopyHostPort ==
    /\ serverPort' = ServerPort(m_port)
    /\ serverHost' = m_host
    /\ portBefore' = m_port
    /\ lastOp' = "establish"
    /\ UNCHANGED << pc, stateVars, m_framebufferState, m_controlFlags, clientVars,
                    driverLocals, queueVars, imageVars, scaledVars,
                    m_framebufferUpdateInterval, callerVars, producerVars,
                    watchdogVars, deleteVars, settingsVars, m_host, m_port,
                    hostArg, portArg >>

\* ------------------------------------------------- the quality settings

\* enum class Quality
Qualities == { "Highest", "High", "Medium", "Low", "Lowest" }

LosslessEncodings == "zrle ultra copyrect hextile zlib corre rre raw"
LossyEncodings == "tight zywrle zrle ultra"

\* a mutation of the quality level: Low is given the level of Medium
QualityLevelLowAsMedium(quality) ==
    CASE quality = "Highest" -> 9
      [] quality = "High" -> 7
      [] quality = "Medium" -> 5
      [] quality = "Low" -> 5
      [] quality = "Lowest" -> 0
      [] OTHER -> 5

\* updateEncodingSettingsFromQuality: the switch over m_quality
QualityLevel(quality) ==
    CASE quality = "Highest" -> 9
      [] quality = "High" -> 7
      [] quality = "Medium" -> 5
      [] quality = "Low" -> 3
      [] quality = "Lowest" -> 0
      [] OTHER -> 5

\* updateEncodingSettingsFromQuality: the four fields it assigns; every other
\* field of appData keeps its value
EncodingSettings(old, quality) ==
    [ old EXCEPT !.encodingsString = IF quality = "Highest" THEN LosslessEncodings
                                                          ELSE LossyEncodings,
                 !.compressLevel = 9,
                 !.qualityLevel = QualityLevel(quality),
                 !.enableJPEG = (quality # "Highest") ]

\* the values appData may hold before the settings are updated
AppDataValues ==
    [ encodingsString : { "", LosslessEncodings, LossyEncodings },
      compressLevel : { 0, 9 },
      qualityLevel : { 0, 3, 5, 7, 9 },
      enableJPEG : BOOLEAN ]

\* a connection with any quality set, and a client with any settings
InitQuality ==
    /\ ConstructedDriver
    /\ ConstructedHost
    /\ timed = FALSE
    /\ m_quality \in Qualities
    /\ appData \in AppDataValues
    /\ encodingsFrom = "none"

\* setQuality: m_quality = quality
SetQuality ==
    /\ \E quality \in Qualities : m_quality' = quality
    /\ UNCHANGED << pc, stateVars, m_framebufferState, m_controlFlags, clientVars,
                    driverLocals, queueVars, imageVars, scaledVars,
                    m_framebufferUpdateInterval, callerVars, producerVars,
                    watchdogVars, deleteVars, appData, encodingsFrom, hostVars >>

\* updateEncodingSettingsFromQuality(), called by setQuality and initFrameBuffer
UpdateEncodingSettingsFromQuality ==
    /\ appData' = EncodingSettings(appData, m_quality)
    /\ encodingsFrom' = m_quality
    /\ UNCHANGED << pc, stateVars, m_framebufferState, m_controlFlags, clientVars,
                    driverLocals, queueVars, imageVars, scaledVars,
                    m_framebufferUpdateInterval, callerVars, producerVars,
                    watchdogVars, deleteVars, m_quality, hostVars >>

\* elapsed times are arbitrary readings
Init == Constructed /\ timed = FALSE

\* elapsed times are read from a clock that advances while the driver waits
InitTimed == Constructed /\ timed = TRUE

\* ------------------------------------------------------------------ time

Min(a, b) == IF a <= b THEN a ELSE b
Max(a, b) == IF a >= b THEN a ELSE b

\* handleConnection: qMax<qint64>( 2*m_framebufferUpdateInterval,
\* m_framebufferUpdateWatchdogTimeout )
WatchdogLimit(interval) == Max(2 * interval, m_framebufferUpdateWatchdogTimeout)

\* readings of the watchdog are told apart up to the largest limit
WatchdogCap == WatchdogLimit(1)

\* the clocks after a wait of d ticks; they stand still if time is not modelled
Elapse(d, silent) ==
    IF timed
    THEN /\ m_framebufferUpdateWatchdog' = Min(m_framebufferUpdateWatchdog + d, WatchdogCap)
         /\ sinceFullRequest' = IF silent THEN Min(sinceFullRequest + d, MaxSilence) ELSE 0
         /\ UNCHANGED timed
    ELSE UNCHANGED watchdogVars

\* m_framebufferUpdateWatchdog.restart()
RestartWatchdog ==
    /\ m_framebufferUpdateWatchdog' = 0
    /\ UNCHANGED timed


\* ------------------------------------------------------------------ run

\* a mutation of run: the loop is left whatever the flags are
RunContinuesNever(flags) == FALSE

\* run: while( isControlFlagSet( ControlFlag::TerminateThread ) == false )
RunContinues(flags) == ~IsControlFlagSet(flags, "TerminateThread")

\* QThread::start(): the driver thread enters run()
Start ==
    /\ pc = "idle"
    /\ pc' = "run_check"
    /\ UNCHANGED << stateVars, m_framebufferState, m_controlFlags, clientVars,
                    driverLocals, queueVars, imageVars, scaledVars,
                    m_framebufferUpdateInterval, callerVars, producerVars, deleteVars, configVars, watchdogVars >>

\* run: the loop condition
RunCheck ==
    /\ pc = "run_check"
    /\ pc' = IF RunContinues(m_controlFlags) THEN "est_state" ELSE "run_exit"
    /\ UNCHANGED << stateVars, m_framebufferState, m_controlFlags, clientVars,
                    driverLocals, queueVars, imageVars, scaledVars,
                    m_framebufferUpdateInterval, callerVars, producerVars, deleteVars, configVars, watchdogVars >>

\* run: after the loop, deleteLaterInMainThread() if DeleteAfterFinished is set
RunExit ==
    /\ pc = "run_exit"
    /\ pc' = "run_return"
    /\ deleteScheduled' = IF IsControlFlagSet(m_controlFlags, "DeleteAfterFinished")
                             THEN deleteScheduled + 1
                             ELSE deleteScheduled
    /\ UNCHANGED << stateVars, m_framebufferState, m_controlFlags, clientVars,
                    driverLocals, queueVars, imageVars, scaledVars,
                    m_framebufferUpdateInterval, callerVars, producerVars,
                    watchdogVars, deleteRequested, configVars >>

\* run returns and the thread finishes: isRunning() is true until here
RunReturn ==
    /\ pc = "run_return"
    /\ pc' = "finished"
    /\ UNCHANGED << stateVars, m_framebufferState, m_controlFlags, clientVars,
                    driverLocals, queueVars, imageVars, scaledVars,
                    m_framebufferUpdateInterval, callerVars, producerVars,
                    watchdogVars, deleteVars, configVars >>

\* ------------------------------------------------------ establishConnection

\* establishConnection: setState( State::Connecting )
EstSetConnecting ==
    /\ pc = "est_state"
    /\ SetState("Connecting")
    /\ pc' = "est_restart"
    /\ UNCHANGED << m_framebufferState, m_controlFlags, clientVars, driverLocals,
                    queueVars, imageVars, scaledVars, m_framebufferUpdateInterval,
                    callerVars, producerVars, deleteVars, configVars, watchdogVars >>

\* establishConnection: setControlFlag( ControlFlag::RestartConnection, false )
EstClearRestart ==
    /\ pc = "est_restart"
    /\ m_controlFlags' = SetControlFlag(m_controlFlags, "RestartConnection", FALSE)
    /\ pc' = "est_fbinv"
    /\ UNCHANGED << stateVars, m_framebufferState, clientVars, driverLocals,
                    queueVars, imageVars, scaledVars, m_framebufferUpdateInterval,
                    callerVars, producerVars, deleteVars, configVars, watchdogVars >>

\* establishConnection: m_framebufferState = FramebufferState::Invalid
EstInvalidate ==
    /\ pc = "est_fbinv"
    /\ m_framebufferState' = "Invalid"
    /\ pc' = "est_loop"
    /\ UNCHANGED << stateVars, m_controlFlags, clientVars, driverLocals, queueVars,
                    imageVars, scaledVars, m_framebufferUpdateInterval, callerVars,
                    producerVars, deleteVars, configVars, watchdogVars >>

\* establishConnection: the retry loop's condition
EstLoopContinues(flags, state) ==
    ~IsControlFlagSet(flags, "TerminateThread") /\ state # "Connected"

EstLoop ==
    /\ pc = "est_loop"
    /\ pc' = IF EstLoopContinues(m_controlFlags, m_state)
             THEN "est_getclient" ELSE "hc_loop"
    /\ UNCHANGED << stateVars, m_framebufferState, m_controlFlags, clientVars,
                    driverLocals, queueVars, imageVars, scaledVars,
                    m_framebufferUpdateInterval, callerVars, producerVars, deleteVars, configVars, watchdogVars >>

\* establishConnection: m_client = rfbGetClient( ... ) and the hooks' assignment
EstGetClient ==
    /\ pc = "est_getclient"
    /\ m_client' = "client"
    /\ clientAlive' = TRUE
    /\ clientData' = "nullptr"
    /\ frameBuffer' = 0
    /\ pc' = "est_setdata"
    /\ UNCHANGED << stateVars, m_framebufferState, m_controlFlags, driverLocals,
                    queueVars, imageVars, scaledVars, m_framebufferUpdateInterval,
                    callerVars, producerVars, deleteVars, configVars, watchdogVars >>

\* setClientData under m_globalMutex: the slot of m_client, if there is a client.
\* A write through a pointer to a released client changes nothing the model keeps.
SetClientData(data) ==
    clientData' = IF m_client # "nullptr" /\ clientAlive THEN data ELSE clientData

\* rfbClientCleanup: the client structure, with its slot and its framebuffer
\* pointer, is released (the pixel array is not: it belongs to the image)
ReleaseClient ==
    /\ clientAlive' = FALSE
    /\ clientData' = "nullptr"
    /\ frameBuffer' = 0

\* establishConnection: setClientData( VncConnectionTag, this ), connectionPrepared,
\* and the copy of host and port under m_globalMutex
EstSetClientData ==
    /\ pc = "est_setdata"
    /\ SetClientData("this")
    /\ pc' = "est_reach"
    /\ UNCHANGED << stateVars, m_framebufferState, m_controlFlags, m_client,
                    clientAlive, frameBuffer, driverLocals, queueVars, imageVars,
                    scaledVars, m_framebufferUpdateInterval, callerVars, producerVars, deleteVars, configVars, watchdogVars >>

\* establishConnection: setControlFlag( ControlFlag::ServerReachable, false )
EstClearReachable ==
    /\ pc = "est_reach"
    /\ m_controlFlags' = SetControlFlag(m_controlFlags, "ServerReachable", FALSE)
    /\ pc' = "est_init"
    /\ UNCHANGED << stateVars, m_framebufferState, clientVars, driverLocals,
                    queueVars, imageVars, scaledVars, m_framebufferUpdateInterval,
                    callerVars, producerVars, deleteVars, configVars, watchdogVars >>

\* rfbInitClient up to the MallocFrameBuffer hook: the connection or the
\* authentication fails (the codec releases the client), or the hook is called;
\* setServerReachable() may have been called on the way
EstInitClient ==
    /\ pc = "est_init"
    /\ \E reached \in BOOLEAN, proceeds \in BOOLEAN :
        /\ m_controlFlags' = IF reached
                             THEN SetControlFlag(m_controlFlags, "ServerReachable", TRUE)
                             ELSE m_controlFlags
        /\ IF proceeds
           THEN /\ pc' = "hook_ifb"
                /\ hookFrom' = "init"
                /\ UNCHANGED << clientInitialized, clientAlive, clientData, frameBuffer >>
           ELSE /\ pc' = "est_initret"
                /\ clientInitialized' = FALSE
                /\ ReleaseClient
                /\ UNCHANGED hookFrom
    /\ UNCHANGED << stateVars, m_framebufferState, m_client, pingReply,
                    queueVars, imageVars, scaledVars, m_framebufferUpdateInterval,
                    callerVars, producerVars, deleteVars, configVars, watchdogVars >>

\* establishConnection: if( clientInitialized == FALSE ) m_client = nullptr
EstInitReturned ==
    /\ pc = "est_initret"
    /\ m_client' = IF clientInitialized THEN m_client ELSE "nullptr"
    /\ pc' = "est_term"
    /\ UNCHANGED << stateVars, m_framebufferState, m_controlFlags, clientAlive,
                    clientData, frameBuffer, driverLocals, queueVars, imageVars,
                    scaledVars, m_framebufferUpdateInterval, callerVars, producerVars, deleteVars, configVars, watchdogVars >>

\* a mutation of the test after rfbInitClient: TerminateThread is not looked at
EstTerminateCheckSkipped ==
    /\ pc = "est_term"
    /\ pc' = IF clientInitialized THEN "est_conn" ELSE "est_class"
    /\ clientInitialized' = FALSE
    /\ UNCHANGED << stateVars, m_framebufferState, m_controlFlags, clientVars,
                    hookFrom, pingReply, queueVars, imageVars, scaledVars,
                    m_framebufferUpdateInterval, callerVars, producerVars, deleteVars, configVars, watchdogVars >>

\* establishConnection: do not continue/sleep when already requested to stop
EstTerminateCheck ==
    /\ pc = "est_term"
    /\ pc' = IF IsControlFlagSet(m_controlFlags, "TerminateThread") THEN "hc_loop"
             ELSE IF clientInitialized THEN "est_conn" ELSE "est_class"
    /\ clientInitialized' = FALSE     \* the local is not read again
    /\ UNCHANGED << stateVars, m_framebufferState, m_controlFlags, clientVars,
                    hookFrom, pingReply, queueVars, imageVars, scaledVars,
                    m_framebufferUpdateInterval, callerVars, producerVars, deleteVars, configVars, watchdogVars >>

\* establishConnection: watchdog restart, socket keepalive, setState( Connected )
EstConnected ==
    /\ pc = "est_conn"
    /\ SetState("Connected")
    /\ RestartWatchdog
    /\ pc' = "est_loop"
    /\ UNCHANGED << m_framebufferState, m_controlFlags, clientVars, driverLocals,
                    queueVars, imageVars, scaledVars, m_framebufferUpdateInterval,
                    callerVars, producerVars, deleteVars, configVars, sinceFullRequest >>

\* a mutation of the failure classification: the framebuffer state is tested first
FailureStateFramebufferFirst(flags, pingOk, fbState) ==
    IF fbState = "Invalid" THEN "AuthenticationFailed"
    ELSE IF ~IsControlFlagSet(flags, "ServerReachable")
         THEN IF IsControlFlagSet(flags, "SkipHostPing") \/ ~pingOk
              THEN "HostOffline" ELSE "ServerNotRunning"
         ELSE "ConnectionFailed"

\* establishConnection: guess reason why connection failed
FailureState(flags, pingOk, fbState) ==
    IF ~IsControlFlagSet(flags, "ServerReachable")
    THEN IF IsControlFlagSet(flags, "SkipHostPing") \/ ~pingOk
         THEN "HostOffline" ELSE "ServerNotRunning"
    ELSE IF fbState = "Invalid" THEN "AuthenticationFailed" ELSE "ConnectionFailed"

\* establishConnection: ping( m_host ), called if ServerReachable and SkipHostPing
\* are both clear
EstPing ==
    /\ pc = "est_class"
    /\ IF \/ IsControlFlagSet(m_controlFlags, "ServerReachable")
          \/ IsControlFlagSet(m_controlFlags, "SkipHostPing")
       THEN pingReply' = FALSE
       ELSE \E reply \in BOOLEAN : pingReply' = reply
    /\ pc' = "est_fail"
    /\ UNCHANGED << stateVars, m_framebufferState, m_controlFlags, clientVars,
                    clientInitialized, hookFrom, queueVars, imageVars, scaledVars,
                    m_framebufferUpdateInterval, callerVars, producerVars, deleteVars, configVars, watchdogVars >>

\* establishConnection: the failure state
EstClassify ==
    /\ pc = "est_fail"
    /\ SetState(FailureState(m_controlFlags, pingReply, m_framebufferState))
    /\ pingReply' = FALSE            \* the result is not read again
    /\ pc' = "est_backoff"
    /\ UNCHANGED << m_framebufferState, m_controlFlags, clientVars,
                    clientInitialized, hookFrom, queueVars, imageVars, scaledVars,
                    m_framebufferUpdateInterval, callerVars, producerVars, deleteVars, configVars, watchdogVars >>

\* establishConnection: sleeperMutex.lock(), if( m_framebufferUpdateInterval > 0 )
EstBackoff ==
    /\ pc = "est_backoff"
    /\ pc' = IF m_framebufferUpdateInterval > 0 THEN "est_backoff_fb"
                                                 ELSE "est_backoff_retry"
    /\ UNCHANGED << stateVars, m_framebufferState, m_controlFlags, clientVars,
                    driverLocals, queueVars, imageVars, scaledVars,
                    m_framebufferUpdateInterval, callerVars, producerVars,
                    deleteVars, configVars, watchdogVars >>

\* the time-out given to wait(): m_framebufferUpdateInterval as it is read for
\* the call, or m_connectionRetryInterval
BackoffDuration(p, interval) ==
    IF p = "est_backoff_fb" THEN interval ELSE m_connectionRetryInterval

\* establishConnection: m_updateIntervalSleeper.wait( &sleeperMutex, duration );
\* with a time-out of 0 the wait returns at once
EstBackoffWait ==
    /\ pc \in { "est_backoff_fb", "est_backoff_retry" }
    /\ pc' = IF BackoffDuration(pc, m_framebufferUpdateInterval) > 0
             THEN "est_wait" ELSE "est_loop"
    /\ UNCHANGED << stateVars, m_framebufferState, m_controlFlags, clientVars,
                    driverLocals, queueVars, imageVars, scaledVars,
                    m_framebufferUpdateInterval, callerVars, producerVars,
                    deleteVars, configVars, watchdogVars >>

\* m_updateIntervalSleeper.wait( &sleeperMutex, timeout ) returns after its
\* timeout, in establishConnection's back-off or in handleConnection's rate control
WaitTimeout ==
    /\ pc \in { "est_wait", "hc_sleep" }
    /\ pc' = WakeAll(pc)
    /\ IF pc = "hc_sleep"
       THEN \E d \in 1..MaxTick : Elapse(d, TRUE)
       ELSE UNCHANGED watchdogVars
    /\ UNCHANGED << stateVars, m_framebufferState, m_controlFlags, clientVars,
                    driverLocals, queueVars, imageVars, scaledVars,
                    m_framebufferUpdateInterval, callerVars, producerVars, deleteVars, configVars >>

\* ----------------------------------------- hookInitFrameBuffer, initFrameBuffer

\* the smallest array address that is not allocated
NewBuffer == CHOOSE b \in Buffers \ heap : \A c \in Buffers \ heap : b <= c

\* the codec call that invoked the MallocFrameBuffer hook goes on with its result:
\* rfbInitClient fails when the hook fails and may still fail after it (it then
\* releases the client); HandleRFBServerMessage fails when the hook fails
HookReturn(result) ==
    /\ hookFrom' = "none"
    /\ UNCHANGED pingReply
    /\ IF hookFrom = "init"
       THEN /\ \E later \in BOOLEAN : clientInitialized' = (result /\ later)
            /\ IF clientInitialized'
               THEN UNCHANGED << clientAlive, clientData, frameBuffer >>
               ELSE ReleaseClient
            /\ pc' = "est_initret"
       ELSE /\ pc' = IF result THEN "hc_more" ELSE "close"
            /\ UNCHANGED << clientInitialized, clientAlive, clientData, frameBuffer >>

\* hookInitFrameBuffer: if (connection && connection->m_client == client)
HookInitAccepts(connection, client) == connection = "this" /\ client = "client"

HookInitFrameBuffer ==
    /\ pc = "hook_ifb"
    /\ IF HookInitAccepts(clientData, m_client)
       THEN /\ pc' = "ifb_check"
            /\ UNCHANGED << driverLocals, clientAlive, clientData, frameBuffer >>
       ELSE HookReturn(FALSE)
    /\ UNCHANGED << stateVars, m_framebufferState, m_controlFlags, m_client,
                    queueVars, imageVars, scaledVars,
                    m_framebufferUpdateInterval, callerVars, producerVars, deleteVars, configVars, watchdogVars >>

\* initFrameBuffer: the bits-per-pixel test, then new RfbPixel[pixelCount], memset
InitFbAllocate ==
    /\ pc = "ifb_check"
    /\ \E bitsPerPixelOk \in BOOLEAN :
        IF bitsPerPixelOk
        THEN /\ frameBuffer' = NewBuffer
             /\ heap' = heap \cup { NewBuffer }
             /\ pc' = "ifb_lock"
             /\ UNCHANGED << driverLocals, clientAlive, clientData >>
        ELSE /\ HookReturn(FALSE)
             /\ UNCHANGED heap
    /\ UNCHANGED << stateVars, m_framebufferState, m_controlFlags, m_client,
                    queueVars, m_imgLock, m_image, refs, scaledVars,
                    m_framebufferUpdateInterval, callerVars, producerVars, deleteVars, configVars, watchdogVars >>

\* a mutation of lockForWrite: readers are not waited for
CanLockForWriteIgnoringReaders(lock) == ~lock.writer

\* QReadWriteLock::lockForWrite returns when nobody holds the lock
CanLockForWrite(lock) == ~lock.writer /\ lock.readers = 0

\* QReadWriteLock::lockForRead returns when no writer holds the lock
CanLockForRead(lock) == ~lock.writer

\* initFrameBuffer: m_imgLock.lockForWrite()
InitFbLock ==
    /\ pc = "ifb_lock"
    /\ CanLockForWrite(m_imgLock)
    /\ m_imgLock' = [ m_imgLock EXCEPT !.writer = TRUE ]
    /\ pc' = "ifb_replace"
    /\ UNCHANGED << stateVars, m_framebufferState, m_controlFlags, clientVars,
                    driverLocals, queueVars, m_image, heap, refs, scaledVars,
                    m_framebufferUpdateInterval, callerVars, producerVars, deleteVars, configVars, watchdogVars >>

\* a mutation of initFrameBuffer: the array replaced is deleted at once
FreedOnReplaceAlways(count) == TRUE

\* the array m_image wrapped is cleaned up (framebufferCleanup) when m_image was
\* the last image using it
FreedOnReplace(count) == count = 1

\* initFrameBuffer: m_image = QImage( m_client->frameBuffer, ..., framebufferCleanup )
InitFbReplace ==
    /\ pc = "ifb_replace"
    /\ m_image' = frameBuffer
    /\ refs' = [ b \in Buffers |->
                   IF b = frameBuffer THEN 1
                   ELSE IF b = m_image THEN refs[b] - 1 ELSE refs[b] ]
    /\ heap' = IF m_image # 0 /\ FreedOnReplace(refs[m_image])
               THEN heap \ { m_image } ELSE heap
    /\ pc' = "ifb_unlock"
    /\ UNCHANGED << stateVars, m_framebufferState, m_controlFlags, clientVars,
                    driverLocals, queueVars, m_imgLock, scaledVars,
                    m_framebufferUpdateInterval, callerVars, producerVars, deleteVars, configVars, watchdogVars >>

\* initFrameBuffer: m_imgLock.unlock()
InitFbUnlock ==
    /\ pc = "ifb_unlock"
    /\ m_imgLock' = [ m_imgLock EXCEPT !.writer = FALSE ]
    /\ pc' = "ifb_state"
    /\ UNCHANGED << stateVars, m_framebufferState, m_controlFlags, clientVars,
                    driverLocals, queueVars, m_image, heap, refs, scaledVars,
                    m_framebufferUpdateInterval, callerVars, producerVars, deleteVars, configVars, watchdogVars >>

\* a mutation of initFrameBuffer: the framebuffer state is left as it was
FramebufferStateAfterInitKept(old) == old

\* initFrameBuffer: m_framebufferState = FramebufferState::Initialized
FramebufferStateAfterInit(old) == "Initialized"

\* initFrameBuffer: pixel format, encodings, the framebuffer state,
\* framebufferSizeChanged, return true
InitFbInitialized ==
    /\ pc = "ifb_state"
    /\ m_framebufferState' = FramebufferStateAfterInit(m_framebufferState)
    /\ HookReturn(TRUE)
    /\ UNCHANGED << stateVars, m_controlFlags, m_client,
                    queueVars, imageVars, scaledVars, m_framebufferUpdateInterval,
                    callerVars, producerVars, deleteVars, configVars, watchdogVars >>

\* ------------------------------------------------------------ handleConnection

\* handleConnection: the loop condition
HandleLoopContinues(flags, state) ==
    /\ state = "Connected"
    /\ ~IsControlFlagSet(flags, "TerminateThread")
    /\ ~IsControlFlagSet(flags, "RestartConnection")

HandleLoop ==
    /\ pc = "hc_loop"
    /\ pc' = IF HandleLoopContinues(m_controlFlags, m_state) THEN "hc_wait" ELSE "close"
    /\ UNCHANGED << stateVars, m_framebufferState, m_controlFlags, clientVars,
                    driverLocals, queueVars, imageVars, scaledVars,
                    m_framebufferUpdateInterval, callerVars, producerVars, deleteVars, configVars, watchdogVars >>

\* handleConnection: WaitForMessage returns i, then
\* if( isControlFlagSet( TerminateThread ) || i < 0 ) break; else if( i ) ...
HandleWait ==
    /\ pc = "hc_wait"
    /\ \E i \in { -1, 0, 1 }, d \in 1..MaxTick :
        /\ pc' = IF IsControlFlagSet(m_controlFlags, "TerminateThread") \/ i < 0
                 THEN "close"
                 ELSE IF i # 0 THEN "hc_msg" ELSE "hc_idle"
        /\ Elapse(d, i = 0)
    /\ UNCHANGED << stateVars, m_framebufferState, m_controlFlags, clientVars,
                    driverLocals, queueVars, imageVars, scaledVars,
                    m_framebufferUpdateInterval, callerVars, producerVars, deleteVars, configVars >>

\* HandleRFBServerMessage fails (read error, unknown message): handledOkay == false
HandleMessageFails ==
    /\ pc = "hc_msg"
    /\ pc' = "close"
    /\ UNCHANGED << stateVars, m_framebufferState, m_controlFlags, clientVars,
                    driverLocals, queueVars, imageVars, scaledVars,
                    m_framebufferUpdateInterval, callerVars, producerVars, deleteVars, configVars, watchdogVars >>

\* HandleRFBServerMessage calls hookUpdateFB, hookHandleCursorPos, hookCursorShape
\* or hookCutText: each emits its signal if the client's slot holds the connection
HandleMessageSignal ==
    /\ pc = "hc_msg"
    /\ \E passes \in BOOLEAN :   \* hookCursorShape: bpp == 4, hookCutText: not empty
        pc' = IF clientData = "this" /\ passes THEN "cb_emit" ELSE "hc_more"
    /\ UNCHANGED << stateVars, m_framebufferState, m_controlFlags, clientVars,
                    driverLocals, queueVars, imageVars, scaledVars,
                    m_framebufferUpdateInterval, callerVars, producerVars, deleteVars, configVars, watchdogVars >>

\* Q_EMIT connection->imageUpdated / cursorPosChanged / cursorShapeUpdated / gotCut
CallbackEmit ==
    /\ pc = "cb_emit"
    /\ pc' = "hc_more"
    /\ UNCHANGED << stateVars, m_framebufferState, m_controlFlags, clientVars,
                    driverLocals, queueVars, imageVars, scaledVars,
                    m_framebufferUpdateInterval, callerVars, producerVars, deleteVars, configVars, watchdogVars >>

\* HandleRFBServerMessage has written an update to the framebuffer and calls
\* hookFinishFrameBufferUpdate
HandleMessageFinish ==
    /\ pc = "hc_msg"
    /\ pc' = IF clientData = "this" THEN "ffu_state" ELSE "hc_more"
    /\ scaledOutdated' = IF clientData = "this" THEN TRUE ELSE scaledOutdated
    /\ UNCHANGED << stateVars, m_framebufferState, m_controlFlags, clientVars,
                    driverLocals, queueVars, imageVars, m_scaledSize,
                    m_scaledFramebuffer,
                    m_framebufferUpdateInterval, callerVars, producerVars, deleteVars, configVars, watchdogVars >>

\* finishFrameBufferUpdate: watchdog restart, m_framebufferState = Valid
FinishUpdateValid ==
    /\ pc = "ffu_state"
    /\ RestartWatchdog
    /\ m_framebufferState' = "Valid"
    /\ pc' = "ffu_flag"
    /\ UNCHANGED << stateVars, m_controlFlags, clientVars, driverLocals, queueVars,
                    imageVars, scaledVars, m_framebufferUpdateInterval, callerVars,
                    producerVars, deleteVars, configVars, sinceFullRequest >>

\* finishFrameBufferUpdate: ScaledFramebufferNeedsUpdate, framebufferUpdateComplete
FinishUpdateFlag ==
    /\ pc = "ffu_flag"
    /\ m_controlFlags' =
           SetControlFlag(m_controlFlags, "ScaledFramebufferNeedsUpdate", TRUE)
    /\ pc' = "hc_more"
    /\ UNCHANGED << stateVars, m_framebufferState, clientVars, driverLocals,
                    queueVars, imageVars, scaledVars,
                    m_framebufferUpdateInterval,
                    callerVars, producerVars, deleteVars, configVars, watchdogVars >>

\* HandleRFBServerMessage gets a new framebuffer size: the MallocFrameBuffer hook
HandleMessageResize ==
    /\ pc = "hc_msg"
    /\ pc' = "hook_ifb"
    /\ hookFrom' = "pump"
    /\ UNCHANGED << stateVars, m_framebufferState, m_controlFlags, clientVars,
                    clientInitialized, pingReply, queueVars, imageVars, scaledVars,
                    m_framebufferUpdateInterval, callerVars, producerVars, deleteVars, configVars, watchdogVars >>

\* handleConnection: while( handledOkay && WaitForMessage( m_client, 0 ) )
HandleMore ==
    /\ pc = "hc_more"
    /\ pc' = "hc_msg"
    /\ UNCHANGED << stateVars, m_framebufferState, m_controlFlags, clientVars,
                    driverLocals, queueVars, imageVars, scaledVars,
                    m_framebufferUpdateInterval, callerVars, producerVars, deleteVars, configVars, watchdogVars >>

\* handleConnection: no further message is ready
HandleDrained ==
    /\ pc = "hc_more"
    /\ pc' = "hc_rate"
    /\ UNCHANGED << stateVars, m_framebufferState, m_controlFlags, clientVars,
                    driverLocals, queueVars, imageVars, scaledVars,
                    m_framebufferUpdateInterval, callerVars, producerVars, deleteVars, configVars, watchdogVars >>

\* handleConnection, no message: the request sent, from the watchdog's reading
IdleRequest(elapsed, interval, flags) ==
    IF elapsed >= WatchdogLimit(interval) THEN "full"
    ELSE IF interval > 0 /\ elapsed > interval THEN "incremental"
    ELSE IF IsControlFlagSet(flags, "TriggerFramebufferUpdate") THEN "triggered"
    ELSE "none"

\* handleConnection without a message: the watchdog has run out (full update
\* request, watchdog restart), or the interval has passed (incremental request,
\* watchdog restart), or TriggerFramebufferUpdate is set (cleared, incremental
\* request), or nothing. elapsed is the watchdog's reading: the clock's value, or
\* any value if time is not modelled.
HandleIdle ==
    /\ pc = "hc_idle"
    /\ \E elapsed \in IF timed THEN { m_framebufferUpdateWatchdog } ELSE 0..WatchdogCap :
        LET request == IdleRequest(elapsed, m_framebufferUpdateInterval, m_controlFlags)
        IN  /\ m_controlFlags' =
                 IF request = "triggered"
                 THEN SetControlFlag(m_controlFlags, "TriggerFramebufferUpdate", FALSE)
                 ELSE m_controlFlags
            /\ IF request \in { "full", "incremental" }
               THEN RestartWatchdog
               ELSE UNCHANGED << timed, m_framebufferUpdateWatchdog >>
            /\ sinceFullRequest' = IF request = "full" THEN 0 ELSE sinceFullRequest
    /\ pc' = "hc_rate"
    /\ UNCHANGED << stateVars, m_framebufferState, clientVars, driverLocals,
                    queueVars, imageVars, scaledVars, m_framebufferUpdateInterval,
                    callerVars, producerVars, deleteVars, configVars >>

\* handleConnection: remainingUpdateInterval > 0 && RequiresManualUpdateRateControl
\* && TerminateThread == false: lock the sleeper mutex and wait
HandleRate ==
    /\ pc = "hc_rate"
    /\ \E remaining \in { 0, m_framebufferUpdateInterval } :
        pc' = IF /\ remaining > 0
                 /\ IsControlFlagSet(m_controlFlags, "RequiresManualUpdateRateControl")
                 /\ ~IsControlFlagSet(m_controlFlags, "TerminateThread")
              THEN "hc_sleep" ELSE "se_lock"
    /\ UNCHANGED << stateVars, m_framebufferState, m_controlFlags, clientVars,
                    driverLocals, queueVars, imageVars, scaledVars,
                    m_framebufferUpdateInterval, callerVars, producerVars, deleteVars, configVars, watchdogVars >>

\* ------------------------------------------------------------------ sendEvents

\* a mutation of sendEvents: the event is taken from the wrong end of the queue
DequeueLast(queue) ==
    [ event |-> queue[Len(queue)], queue |-> SubSeq(queue, 1, Len(queue) - 1) ]

\* m_eventQueue.dequeue(): the event taken and the queue left
Dequeue(queue) == [ event |-> Head(queue), queue |-> Tail(queue) ]

\* sendEvents: m_eventQueueMutex.lock()
SendEventsLock ==
    /\ pc = "se_lock"
    /\ m_eventQueueMutex = "free"
    /\ m_eventQueueMutex' = "driver"
    /\ pc' = "se_test"
    /\ UNCHANGED << stateVars, m_framebufferState, m_controlFlags, clientVars,
                    driverLocals, m_eventQueue, event, appended, eventLog, imageVars,
                    scaledVars, m_framebufferUpdateInterval, callerVars, producerVars, deleteVars, configVars, watchdogVars >>

\* sendEvents: the queue is empty: unlock and return to handleConnection's loop
SendEventsDone ==
    /\ pc = "se_test"
    /\ m_eventQueue = << >>
    /\ m_eventQueueMutex' = "free"
    /\ pc' = "hc_loop"
    /\ UNCHANGED << stateVars, m_framebufferState, m_controlFlags, clientVars,
                    driverLocals, m_eventQueue, event, appended, eventLog, imageVars,
                    scaledVars, m_framebufferUpdateInterval, callerVars, producerVars, deleteVars, configVars, watchdogVars >>

\* a mutation of sendEvents: the queue mutex is kept during fire()
SendEventsDequeueLocked ==
    /\ pc = "se_test"
    /\ m_eventQueue # << >>
    /\ event' = Dequeue(m_eventQueue).event
    /\ m_eventQueue' = Dequeue(m_eventQueue).queue
    /\ m_eventQueueMutex' = m_eventQueueMutex
    /\ pc' = "se_fire"
    /\ UNCHANGED << stateVars, m_framebufferState, m_controlFlags, clientVars,
                    driverLocals, appended, eventLog, imageVars, scaledVars,
                    m_framebufferUpdateInterval, callerVars, producerVars, deleteVars, configVars, watchdogVars >>

\* sendEvents: dequeue, and unlock the queue mutex during the runtime of fire()
SendEventsDequeue ==
    /\ pc = "se_test"
    /\ m_eventQueue # << >>
    /\ event' = Dequeue(m_eventQueue).event
    /\ m_eventQueue' = Dequeue(m_eventQueue).queue
    /\ m_eventQueueMutex' = "free"
    /\ pc' = "se_fire"
    /\ UNCHANGED << stateVars, m_framebufferState, m_controlFlags, clientVars,
                    driverLocals, appended, eventLog, imageVars, scaledVars,
                    m_framebufferUpdateInterval, callerVars, producerVars, deleteVars, configVars, watchdogVars >>

\* sendEvents: if( TerminateThread == false ) event->fire( m_client ); delete event
SendEventsFire ==
    /\ pc = "se_fire"
    /\ eventLog' = Append(eventLog,
                      << event, IF IsControlFlagSet(m_controlFlags, "TerminateThread")
                                THEN "discarded" ELSE "fired" >>)
    /\ event' = 0
    /\ pc' = "se_lock"
    /\ UNCHANGED << stateVars, m_framebufferState, m_controlFlags, clientVars,
                    driverLocals, m_eventQueue, m_eventQueueMutex, appended, imageVars,
                    scaledVars, m_framebufferUpdateInterval, callerVars, producerVars, deleteVars, configVars, watchdogVars >>

\* ------------------------------------------------------------ closeConnection

\* closeConnection: if( m_client ) rfbClientCleanup( m_client )
CloseCleanup ==
    /\ pc = "close"
    /\ IF m_client # "nullptr"
       THEN /\ ReleaseClient
            /\ pc' = "close_null"
       ELSE /\ pc' = "close_state"
            /\ UNCHANGED << clientAlive, clientData, frameBuffer >>
    /\ RestartWatchdog              \* the timer is restarted before it is read again
    /\ sinceFullRequest' = 0
    /\ UNCHANGED << stateVars, m_framebufferState, m_controlFlags, m_client,
                    driverLocals, queueVars, imageVars, scaledVars,
                    m_framebufferUpdateInterval, callerVars, producerVars, deleteVars, configVars >>

\* closeConnection: m_client = nullptr
CloseNull ==
    /\ pc = "close_null"
    /\ m_client' = "nullptr"
    /\ pc' = "close_state"
    /\ UNCHANGED << stateVars, m_framebufferState, m_controlFlags, clientAlive,
                    clientData, frameBuffer, driverLocals, queueVars, imageVars,
                    scaledVars, m_framebufferUpdateInterval, callerVars, producerVars, deleteVars, configVars, watchdogVars >>

\* closeConnection: setState( State::Disconnected )
CloseDisconnected ==
    /\ pc = "close_state"
    /\ SetState("Disconnected")
    /\ pc' = "run_check"
    /\ UNCHANGED << m_framebufferState, m_controlFlags, clientVars, driverLocals,
                    queueVars, imageVars, scaledVars, m_framebufferUpdateInterval,
                    callerVars, producerVars, deleteVars, configVars, watchdogVars >>


\* ------------------------------------------------ producers: enqueueEvent

\* enqueueEvent: if( state() != State::Connected ) return
EnqueueAccepts(state) == state = "Connected"

\* mouseEvent, keyEvent, clientCut (setQuality, setUseRemoteCursor): a new event
\* is passed to enqueueEvent, which tests the state and returns if it is not
\* Connected
EnqueueCall(p) ==
    /\ ppc[p] \in { "idle", "enqueue" }
    /\ accepted < MaxEvents
    /\ IF EnqueueAccepts(m_state)
       THEN /\ ppc' = [ ppc EXCEPT ![p] = "append" ]
            /\ accepted' = accepted + 1
       ELSE /\ ppc' = [ ppc EXCEPT ![p] = "idle" ]
            /\ UNCHANGED accepted
    /\ UNCHANGED << pc, stateVars, m_framebufferState, m_controlFlags, clientVars,
                    driverLocals, queueVars, imageVars, scaledVars,
                    m_framebufferUpdateInterval, callerVars, deleteVars, configVars,
                    watchdogVars >>

\* enqueueEvent: lock, m_eventQueue.enqueue( event ), unlock, then
\* m_updateIntervalSleeper.wakeAll()
EnqueueAppend(p) ==
    /\ ppc[p] = "append"
    /\ m_eventQueueMutex = "free"
    /\ m_eventQueue' = Append(m_eventQueue, appended + 1)
    /\ appended' = appended + 1
    /\ ppc' = [ ppc EXCEPT ![p] = "idle" ]
    /\ pc' = WakeAll(pc)
    /\ UNCHANGED << stateVars, m_framebufferState, m_controlFlags, clientVars,
                    driverLocals, m_eventQueueMutex, event, eventLog, imageVars,
                    scaledVars, m_framebufferUpdateInterval, callerVars, accepted,
                    deleteVars, configVars, watchdogVars >>

\* ------------------------------ other threads: setQuality, setUseRemoteCursor

\* setQuality, setUseRemoteCursor: m_quality or m_useRemoteCursor is assigned and
\* m_client is tested, without any lock
SetClientSettingTest(p) ==
    /\ ppc[p] = "idle"
    /\ ppc' = [ ppc EXCEPT ![p] = IF m_client # "nullptr" THEN "setting" ELSE "idle" ]
    /\ UNCHANGED << pc, stateVars, m_framebufferState, m_controlFlags, clientVars,
                    driverLocals, queueVars, imageVars, scaledVars,
                    m_framebufferUpdateInterval, callerVars, accepted, deleteVars, configVars,
                    watchdogVars >>

\* setQuality: updateEncodingSettingsFromQuality(); setUseRemoteCursor:
\* m_client->appData.useRemoteCursor = ...; both write into the client structure
\* through the pointer tested before (the model keeps none of appData), then call
\* enqueueEvent
SetClientSettingWrite(p) ==
    /\ ppc[p] = "setting"
    /\ ppc' = [ ppc EXCEPT ![p] = "enqueue" ]
    /\ UNCHANGED << pc, stateVars, m_framebufferState, m_controlFlags, clientVars,
                    driverLocals, queueVars, imageVars, scaledVars,
                    m_framebufferUpdateInterval, callerVars, accepted, deleteVars, configVars,
                    watchdogVars >>

\* ------------------------------------------------ the caller thread: stop

\* stop: setClientData( VncConnectionTag, nullptr ), m_scaledFramebuffer = {}
StopClientDataFrom(from) ==
    /\ upc = from
    /\ SetClientData("nullptr")
    /\ m_scaledFramebuffer' = 0
    /\ upc' = "stop_flag"
    /\ UNCHANGED << pc, stateVars, m_framebufferState, m_controlFlags, m_client,
                    clientAlive, frameBuffer, driverLocals, queueVars, imageVars,
                    m_scaledSize, scaledOutdated, m_framebufferUpdateInterval, snapshot, stopReturned,
                    producerVars, deleteVars, configVars, watchdogVars >>

\* stop() called by the owner of the connection
StopClientData == StopClientDataFrom("idle")

\* stop: setControlFlag( ControlFlag::TerminateThread, true ),
\* m_updateIntervalSleeper.wakeAll(), return
StopTerminate ==
    /\ upc = "stop_flag"
    /\ m_controlFlags' = SetControlFlag(m_controlFlags, "TerminateThread", TRUE)
    /\ pc' = WakeAll(pc)
    /\ upc' = "idle"
    /\ stopReturned' = TRUE
    /\ UNCHANGED << stateVars, m_framebufferState, clientVars, driverLocals,
                    queueVars, imageVars, scaledVars, m_framebufferUpdateInterval,
                    snapshot, producerVars, deleteVars, configVars, watchdogVars >>

\* ---------------------------------- the caller thread: stopAndDeleteLater

\* QThread::isRunning(): the thread was started and has not finished yet
IsRunning(p) == p \notin { "idle", "finished" }

\* stopAndDeleteLater: if( isRunning() ) ... else deleteLaterInMainThread()
DeleteLaterIsRunning ==
    /\ upc = "idle"
    /\ ~deleteRequested
    /\ deleteRequested' = TRUE
    /\ IF IsRunning(pc)
          THEN upc' = "sdl_flag" /\ UNCHANGED deleteScheduled
          ELSE upc' = "idle" /\ deleteScheduled' = deleteScheduled + 1
    /\ UNCHANGED << pc, stateVars, m_framebufferState, m_controlFlags, clientVars,
                    driverLocals, queueVars, imageVars, scaledVars,
                    m_framebufferUpdateInterval, snapshot, stopReturned,
                    producerVars, watchdogVars, configVars >>

\* stopAndDeleteLater: setControlFlag( ControlFlag::DeleteAfterFinished, true )
DeleteLaterFlag ==
    /\ upc = "sdl_flag"
    /\ m_controlFlags' = SetControlFlag(m_controlFlags, "DeleteAfterFinished", TRUE)
    /\ upc' = "sdl_stop"
    /\ UNCHANGED << pc, stateVars, m_framebufferState, clientVars, driverLocals,
                    queueVars, imageVars, scaledVars, m_framebufferUpdateInterval,
                    snapshot, stopReturned, producerVars, watchdogVars, deleteVars, configVars >>

\* stopAndDeleteLater: stop(), its first statements
DeleteLaterStop == StopClientDataFrom("sdl_stop")

\* restart: setControlFlag( ControlFlag::RestartConnection, true )
Restart ==
    /\ upc = "idle"
    /\ m_controlFlags' = SetControlFlag(m_controlFlags, "RestartConnection", TRUE)
    /\ UNCHANGED << pc, stateVars, m_framebufferState, clientVars, driverLocals,
                    queueVars, imageVars, scaledVars, m_framebufferUpdateInterval,
                    callerVars, producerVars, deleteVars, configVars, watchdogVars >>

\* setControlFlag( flag, true ) for the two flags that configure the driver,
\* before the thread is started
Configure(flag) ==
    /\ upc = "idle"
    /\ pc = "idle"
    /\ m_controlFlags' = SetControlFlag(m_controlFlags, flag, TRUE)
    /\ UNCHANGED << pc, stateVars, m_framebufferState, clientVars, driverLocals,
                    queueVars, imageVars, scaledVars, m_framebufferUpdateInterval,
                    callerVars, producerVars, deleteVars, configVars, watchdogVars >>

\* setFramebufferUpdateInterval: m_framebufferUpdateInterval = interval
SetInterval ==
    /\ upc = "idle"
    /\ \E interval \in { 0, 1 } : m_framebufferUpdateInterval' = interval
    /\ upc' = "si_flag"
    /\ UNCHANGED << pc, stateVars, m_framebufferState, m_controlFlags, clientVars,
                    driverLocals, queueVars, imageVars, scaledVars, snapshot,
                    stopReturned, producerVars, deleteVars, configVars, watchdogVars >>

\* setFramebufferUpdateInterval: TriggerFramebufferUpdate if the interval is <= 0,
\* then m_updateIntervalSleeper.wakeAll()
SetIntervalTrigger ==
    /\ upc = "si_flag"
    /\ m_controlFlags' =
          IF m_framebufferUpdateInterval <= 0
          THEN SetControlFlag(m_controlFlags, "TriggerFramebufferUpdate", TRUE)
          ELSE m_controlFlags
    /\ pc' = WakeAll(pc)
    /\ upc' = "idle"
    /\ UNCHANGED << stateVars, m_framebufferState, clientVars, driverLocals,
                    queueVars, imageVars, scaledVars, m_framebufferUpdateInterval,
                    snapshot, stopReturned, producerVars, deleteVars, configVars, watchdogVars >>


\* ------------------------------------------------ the caller thread: image

\* image: QReadLocker locker( &m_imgLock )
ImageLock ==
    /\ upc = "idle"
    /\ snapshot = 0
    /\ CanLockForRead(m_imgLock)
    /\ m_imgLock' = [ m_imgLock EXCEPT !.readers = @ + 1 ]
    /\ upc' = "img_copy"
    /\ UNCHANGED << pc, stateVars, m_framebufferState, m_controlFlags, clientVars,
                    driverLocals, queueVars, m_image, heap, refs, scaledVars,
                    m_framebufferUpdateInterval, snapshot, stopReturned, producerVars, deleteVars, configVars, watchdogVars >>

\* image: return m_image (a copy of the handle, sharing the array), unlock
ImageCopy ==
    /\ upc = "img_copy"
    /\ snapshot' = m_image
    /\ refs' = [ b \in Buffers |-> IF b = m_image THEN refs[b] + 1 ELSE refs[b] ]
    /\ m_imgLock' = [ m_imgLock EXCEPT !.readers = @ - 1 ]
    /\ upc' = "idle"
    /\ UNCHANGED << pc, stateVars, m_framebufferState, m_controlFlags, clientVars,
                    driverLocals, queueVars, m_image, heap, scaledVars,
                    m_framebufferUpdateInterval, stopReturned, producerVars, deleteVars, configVars, watchdogVars >>

\* the caller destroys the image it got from image(): the array is cleaned up
\* (framebufferCleanup) if this was the last image using it
ImageRelease ==
    /\ upc = "idle"
    /\ snapshot # 0
    /\ snapshot' = 0
    /\ refs' = [ refs EXCEPT ![snapshot] = @ - 1 ]
    /\ heap' = IF refs[snapshot] = 1 THEN heap \ { snapshot } ELSE heap
    /\ UNCHANGED << pc, stateVars, m_framebufferState, m_controlFlags, clientVars,
                    driverLocals, queueVars, m_imgLock, m_image, scaledVars,
                    m_framebufferUpdateInterval, upc, stopReturned, producerVars, deleteVars, configVars, watchdogVars >>

\* ------------------------- the caller thread: setScaledSize, scaledFramebuffer

\* setScaledSize under m_globalMutex
SetScaledSize ==
    /\ upc = "idle"
    /\ \E s \in Sizes :
        IF m_scaledSize # s
        THEN /\ m_scaledSize' = s
             /\ m_controlFlags' =
                  SetControlFlag(m_controlFlags, "ScaledFramebufferNeedsUpdate", TRUE)
        ELSE UNCHANGED << m_scaledSize, m_controlFlags >>
    /\ UNCHANGED << pc, stateVars, m_framebufferState, clientVars, driverLocals,
                    queueVars, imageVars, m_scaledFramebuffer, scaledOutdated,
                    m_framebufferUpdateInterval, callerVars, producerVars, deleteVars, configVars, watchdogVars >>

\* hasValidFramebuffer
HasValidFramebuffer == m_framebufferState = "Valid"

\* rescaleFramebuffer: no valid framebuffer or a null size: the scaled image is reset
RescaleBegin ==
    /\ upc = "idle"
    /\ IF ~HasValidFramebuffer \/ m_scaledSize = 0
       THEN /\ m_scaledFramebuffer' = 0
            /\ UNCHANGED upc
       ELSE /\ upc' = "rs_flag"
            /\ UNCHANGED m_scaledFramebuffer
    /\ UNCHANGED << pc, stateVars, m_framebufferState, m_controlFlags, clientVars,
                    driverLocals, queueVars, imageVars, m_scaledSize, scaledOutdated,
                    m_framebufferUpdateInterval, snapshot, stopReturned, producerVars, deleteVars, configVars, watchdogVars >>

\* rescaleFramebuffer: return if ScaledFramebufferNeedsUpdate is not set
RescaleFlag ==
    /\ upc = "rs_flag"
    /\ upc' = IF IsControlFlagSet(m_controlFlags, "ScaledFramebufferNeedsUpdate")
              THEN "rs_lock" ELSE "idle"
    /\ UNCHANGED << pc, stateVars, m_framebufferState, m_controlFlags, clientVars,
                    driverLocals, queueVars, imageVars, scaledVars,
                    m_framebufferUpdateInterval, snapshot, stopReturned, producerVars, deleteVars, configVars, watchdogVars >>

\* rescaleFramebuffer: QReadLocker locker( &m_imgLock )
RescaleLock ==
    /\ upc = "rs_lock"
    /\ CanLockForRead(m_imgLock)
    /\ m_imgLock' = [ m_imgLock EXCEPT !.readers = @ + 1 ]
    /\ upc' = "rs_scale"
    /\ UNCHANGED << pc, stateVars, m_framebufferState, m_controlFlags, clientVars,
                    driverLocals, queueVars, m_image, heap, refs, scaledVars,
                    m_framebufferUpdateInterval, snapshot, stopReturned, producerVars, deleteVars, configVars, watchdogVars >>

\* rescaleFramebuffer: return if the image has no valid size, else
\* m_scaledFramebuffer = m_image.scaled( m_scaledSize, ... )
RescaleScale ==
    /\ upc = "rs_scale"
    /\ IF m_image = 0
       THEN /\ m_imgLock' = [ m_imgLock EXCEPT !.readers = @ - 1 ]
            /\ upc' = "idle"
            /\ UNCHANGED << m_scaledFramebuffer, scaledOutdated >>
       ELSE /\ m_scaledFramebuffer' = m_scaledSize
            /\ scaledOutdated' = FALSE
            /\ upc' = "rs_clear"
            /\ UNCHANGED m_imgLock
    /\ UNCHANGED << pc, stateVars, m_framebufferState, m_controlFlags, clientVars,
                    driverLocals, queueVars, m_image, heap, refs, m_scaledSize,
                    m_framebufferUpdateInterval, snapshot, stopReturned, producerVars, deleteVars, configVars, watchdogVars >>

\* rescaleFramebuffer: setControlFlag( ScaledFramebufferNeedsUpdate, false ), unlock
RescaleClear ==
    /\ upc = "rs_clear"
    /\ m_controlFlags' =
          SetControlFlag(m_controlFlags, "ScaledFramebufferNeedsUpdate", FALSE)
    /\ m_imgLock' = [ m_imgLock EXCEPT !.readers = @ - 1 ]
    /\ upc' = "idle"
    /\ UNCHANGED << pc, stateVars, m_framebufferState, clientVars, driverLocals,
                    queueVars, m_image, heap, refs, scaledVars,
                    m_framebufferUpdateInterval, snapshot, stopReturned, producerVars, deleteVars, configVars, watchdogVars >>

\* ------------------------------------------------------------------ Next

\* the driver thread, but for the two steps of sendEvents that need an event
DriverCore ==
    \/ RunCheck \/ RunExit \/ RunReturn
    \/ EstSetConnecting \/ EstClearRestart \/ EstInvalidate \/ EstLoop
    \/ EstGetClient \/ EstSetClientData \/ EstClearReachable \/ EstInitClient
    \/ EstInitReturned \/ EstTerminateCheck \/ EstConnected \/ EstPing
    \/ EstClassify \/ EstBackoff \/ EstBackoffWait
    \/ WaitTimeout
    \/ HookInitFrameBuffer \/ InitFbAllocate \/ InitFbLock \/ InitFbReplace
    \/ InitFbUnlock \/ InitFbInitialized
    \/ HandleLoop \/ HandleWait \/ HandleMessageFails \/ HandleMessageSignal
    \/ CallbackEmit \/ HandleMessageFinish \/ FinishUpdateValid \/ FinishUpdateFlag
    \/ HandleMessageResize \/ HandleMore \/ HandleDrained \/ HandleIdle
    \/ HandleRate
    \/ SendEventsLock \/ SendEventsDone
    \/ CloseCleanup \/ CloseNull \/ CloseDisconnected

\* the driver thread
Driver == DriverCore \/ SendEventsDequeue \/ SendEventsFire

\* the operations of the threads that produce events
Producer(P) == \E p \in P : EnqueueCall(p) \/ EnqueueAppend(p)

\* stop() on the caller thread
Stop == StopClientData \/ StopTerminate

\* setQuality() and setUseRemoteCursor() on the threads that produce events
ClientSetting(P) ==
    \E p \in P : \/ SetClientSettingTest(p) \/ SetClientSettingWrite(p)
                 \/ EnqueueCall(p) \/ EnqueueAppend(p)

\* stopAndDeleteLater() on the caller thread, called once
StopAndDeleteLater ==
    DeleteLaterIsRunning \/ DeleteLaterFlag \/ DeleteLaterStop \/ StopTerminate

\* start() of a connection that has not been handed over for deletion
StartOwned == ~deleteRequested /\ Start

\* stop() of a connection that has not been handed over for deletion; its last
\* statements are StopTerminate
StopOwned == ~deleteRequested /\ StopClientData

\* image() on the caller thread, and the image it returned being destroyed
Image == ImageLock \/ ImageCopy \/ ImageRelease

\* setScaledSize() and scaledFramebuffer() on the caller thread
Scaled ==
    \/ SetScaledSize \/ RescaleBegin \/ RescaleFlag \/ RescaleLock \/ RescaleScale
    \/ RescaleClear

\* The driver thread against a caller thread that reads the image and the scaled
\* image and stops the connection. No event is produced: the queue stays empty
\* and sendEvents returns at once.
Next == DriverCore \/ Start \/ Stop \/ Image \/ Scaled

Spec == Init /\ [][Next]_vars

\* The driver thread against the producer threads and a caller thread that
\* restarts and stops the connection.
NextEvents == Driver \/ Start \/ Stop \/ Restart \/ Producer(Producers)

SpecEvents == Init /\ [][NextEvents]_vars

\* The driver thread against every operation that sets or clears a control flag.
NextFlags ==
    \/ DriverCore \/ Start \/ Stop \/ Restart
    \/ Configure("RequiresManualUpdateRateControl") \/ Configure("SkipHostPing")
    \/ SetInterval \/ SetIntervalTrigger
    \/ Scaled

SpecFlags == Init /\ [][NextFlags]_vars

\* the driver thread with stop() and one producer, under fair scheduling: the
\* driver thread takes a step whenever it can (every codec call and every timed
\* wait returns), and stop(), once begun, runs to its end
NextLive == Driver \/ Start \/ Stop \/ Producer({ "p1" })

SpecLive ==
    /\ Init /\ [][NextLive]_vars
    /\ WF_vars(Driver)
    /\ WF_vars(StopTerminate)


\* the driver thread with stop(), restart() and the SkipHostPing setting: the
\* connection attempts, their failures and the retries
NextEstablish ==
    DriverCore \/ Start \/ Stop \/ Restart \/ Configure("SkipHostPing")

SpecEstablish == Init /\ [][NextEstablish]_vars

\* the driver thread under a clock, with stop(), setFramebufferUpdateInterval and
\* the manual rate control setting
NextWatchdog ==
    \/ DriverCore \/ Start \/ Stop
    \/ SetInterval \/ SetIntervalTrigger
    \/ Configure("RequiresManualUpdateRateControl")

SpecWatchdog == InitTimed /\ [][NextWatchdog]_vars

\* the driver thread against a caller that restarts and stops the connection,
\* under fair scheduling of the driver thread; a stop() that began returns
NextRestart == DriverCore \/ Start \/ Stop \/ Restart

SpecRestart ==
    Init /\ [][NextRestart]_vars /\ WF_vars(DriverCore) /\ WF_vars(StopTerminate)

\* the driver thread against an owner that starts the connection, may stop it,
\* and gives it up with stopAndDeleteLater()
NextDelete == DriverCore \/ StartOwned \/ StopOwned \/ StopAndDeleteLater

SpecDelete == Init /\ [][NextDelete]_vars

\* the driver thread against a caller that stops or restarts the connection and
\* one other thread that changes the quality or the cursor setting
NextSettings == Driver \/ Start \/ Stop \/ Restart \/ ClientSetting({ "p1" })

SpecSettings == Init /\ [][NextSettings]_vars

\* the quality settings alone: any quality and any earlier settings of the client
NextQuality == SetQuality \/ UpdateEncodingSettingsFromQuality

SpecQuality == InitQuality /\ [][NextQuality]_vars

\* host and port alone: setHost and setPort with any of the inputs, and the copy
\* establishConnection makes of them
NextHost == SetHost \/ SetPort \/ EstCopyHostPort

SpecHost == InitHost /\ [][NextHost]_vars

\* WaitForMessage returns 0: the server sent nothing during the wait
QuietWait == HandleWait /\ pc' = "hc_idle"

\* the message pump with its clock against a caller that changes the update
\* interval and stops the connection. The driver thread is scheduled fairly, and
\* the server pauses again and again: the loop over the pending messages ends and
\* a wait for a message times out.
NextPump == DriverCore \/ Start \/ Stop \/ SetInterval \/ SetIntervalTrigger

SpecPump ==
    /\ InitTimed /\ [][NextPump]_vars
    /\ WF_vars(DriverCore) /\ SF_vars(HandleDrained) /\ SF_vars(QuietWait)

\* ------------------------------------------------------------------ claims

\* the events sendEvents has fired or discarded, in that order
Processed == [ i \in 1..Len(eventLog) |-> eventLog[i][1] ]

\* how often event e was fired or discarded
TimesProcessed(e) == Cardinality({ i \in 1..Len(eventLog) : eventLog[i][1] = e })

\* C1: every event accepted by enqueueEvent is fired exactly once or discarded
\* exactly once: when the driver thread has returned from run() and no producer
\* is inside enqueueEvent, no accepted event is left without having been fired or
\* discarded, and none was processed twice.
C1_EveryEventFiredOrDiscardedOnce ==
    (pc = "finished" /\ \A p \in Producers : ppc[p] = "idle")
        => /\ m_eventQueue = << >>
           /\ \A e \in 1..appended : TimesProcessed(e) = 1

\* C2: events are fired (or discarded) in the order in which they were appended.
\* Event n is the n-th event appended; the events processed, then the event
\* sendEvents holds, then the queue are at all times the events 1..appended in
\* that order, so no event overtakes an earlier one, is lost or is duplicated.
C2_FiredInAppendOrder ==
    Processed \o (IF event # 0 THEN << event >> ELSE << >>) \o m_eventQueue
        = [ i \in 1..appended |-> i ]

\* C2 witness: sendEvents holds event 1 with the mutex released while event 2 is
\* in the queue
C2_Witness == event = 1 /\ m_eventQueue = << 2 >> /\ m_eventQueueMutex = "free"

\* C3: an event is appended to the queue only while the state is Connected.
C3_AppendOnlyWhileConnected ==
    [][appended' # appended => m_state = "Connected"]_vars

\* C4: once stop() has set TerminateThread, the driver thread, if it is running,
\* eventually returns from run().
C4_DriverExitsAfterTerminate ==
    (IsControlFlagSet(m_controlFlags, "TerminateThread") /\ pc # "idle")
        ~> (pc = "finished")

\* C5: TerminateThread, once set, stays set in every later state.
C5_TerminateMonotonic ==
    [][IsControlFlagSet(m_controlFlags, "TerminateThread")
         => IsControlFlagSet(m_controlFlags', "TerminateThread")]_vars

\* C5 witness: establishConnection has cleared RestartConnection while
\* TerminateThread was set, and the flag is still set
C5_Witness ==
    /\ pc = "est_fbinv"
    /\ IsControlFlagSet(m_controlFlags, "TerminateThread")
    /\ IsControlFlagSet(m_controlFlags, "ScaledFramebufferNeedsUpdate")

\* C6: whenever the state is Connected the framebuffer state is Initialized or
\* Valid.
C6_ConnectedImpliesFramebuffer ==
    m_state = "Connected" => m_framebufferState \in { "Initialized", "Valid" }

\* C6 witness: the pump runs on a connection whose framebuffer is Initialized
C6_Witness ==
    m_state = "Connected" /\ pc = "hc_wait" /\ m_framebufferState = "Initialized"

\* a step in which the codec invokes a callback and the callback finds the
\* connection in the client's slot, so that it goes on to replace the image,
\* change the framebuffer state or emit its signal
CallbackAccepted ==
    \/ HookInitFrameBuffer /\ pc' = "ifb_check"
    \/ HandleMessageSignal /\ pc' = "cb_emit"
    \/ HandleMessageFinish /\ pc' = "ffu_state"

\* C7: after stop() has returned every codec callback is ignored: no callback the
\* codec invokes from then on finds the connection and acts on it.
C7_CallbacksIgnoredAfterStop == [][stopReturned => ~CallbackAccepted]_vars

\* C8: the image handle is replaced only under the write lock, which is held only
\* while no reader holds the read lock and only from lockForWrite to unlock in
\* initFrameBuffer.
C8_ReplacedOnlyUnderWriteLock ==
    /\ [](m_imgLock.writer => m_imgLock.readers = 0)
    /\ [](m_imgLock.writer <=> pc \in { "ifb_replace", "ifb_unlock" })
    /\ [][m_image' # m_image => m_imgLock.writer /\ m_imgLock.readers = 0]_vars

\* C8 witness: initFrameBuffer has replaced the handle under the write lock while
\* the caller holds a snapshot of the array it replaced
C8_Witness ==
    /\ pc = "ifb_unlock" /\ m_imgLock.writer
    /\ snapshot # 0 /\ m_image # snapshot

\* the image handles that use array b
Handles(b) == (IF m_image = b THEN 1 ELSE 0) + (IF snapshot = b THEN 1 ELSE 0)

\* C9: the array a snapshot was taken from stays allocated as long as the
\* snapshot is held; an array is released only when no image uses it, and the
\* reference count of every array is the number of images using it.
C9_SnapshotKeepsArray ==
    /\ snapshot # 0 => snapshot \in heap
    /\ m_image # 0 => m_image \in heap
    /\ \A b \in Buffers : refs[b] = Handles(b)
    /\ \A b \in heap : Handles(b) > 0 \/ b = frameBuffer

\* C9 witness: the caller holds a snapshot of an array the driver has replaced,
\* and the driver thread has closed the connection and returned
C9_Witness ==
    snapshot # 0 /\ m_image # 0 /\ snapshot # m_image /\ pc = "finished"

\* the positions of the driver thread at which the next step is a setState call
SetStatePcs == { "est_state", "est_conn", "est_fail", "close_state" }

\* C10: a setState call emits stateChanged exactly when it changes the stored
\* state, and the stored state changes in setState calls only.
C10_StateChangedIffChanged ==
    /\ [][(pc \in SetStatePcs /\ pc' # pc)
            => (stateChangedEmitted' <=> m_state' # m_state)]_vars
    /\ [][m_state' # m_state => pc \in SetStatePcs]_vars

\* C10 witness: a failed attempt has published the failure state that was
\* already stored, and nothing was emitted
C10_Witness ==
    pc = "est_wait" /\ m_state = "HostOffline" /\ ~stateChangedEmitted

\* C11: a failed attempt publishes HostOffline if ServerReachable is clear and
\* SkipHostPing is set or the ping failed, ServerNotRunning if ServerReachable is
\* clear and the ping succeeded, AuthenticationFailed if ServerReachable is set and
\* the framebuffer state is Invalid, ConnectionFailed otherwise; and ServerReachable
\* is clear when rfbInitClient is entered, so it is set at the classification only
\* if it was set during this attempt.
C11_FailureClassification ==
    /\ [](pc = "est_init" => ~IsControlFlagSet(m_controlFlags, "ServerReachable"))
    /\ [][(pc = "est_fail" /\ pc' = "est_backoff") =>
            m_state' =
              IF "ServerReachable" \notin m_controlFlags
              THEN IF "SkipHostPing" \in m_controlFlags \/ ~pingReply
                   THEN "HostOffline" ELSE "ServerNotRunning"
              ELSE IF m_framebufferState = "Invalid"
                   THEN "AuthenticationFailed" ELSE "ConnectionFailed"]_vars

\* C11 witness: with SkipHostPing set, an attempt on which the server was reached
\* has failed with the framebuffer state Invalid and was classified
C11_Witness ==
    /\ pc = "est_wait" /\ m_state = "AuthenticationFailed"
    /\ "SkipHostPing" \in m_controlFlags

\* C12: with an unreachable host and SkipHostPing set the state is Connecting
\* whenever the driver begins a connection attempt: the first one and every
\* retry.
C12_ConnectingBeforeEveryAttempt ==
    ( /\ pc = "est_getclient"
      /\ "SkipHostPing" \in m_controlFlags
      /\ "ServerReachable" \notin m_controlFlags )
        => m_state = "Connecting"

\* the step in which initFrameBuffer, called by rfbInitClient, finds a pixel
\* format that is not 32 bits per pixel and returns false
BitsPerPixelMismatch == pc = "ifb_check" /\ hookFrom = "init" /\ pc' = "est_initret"

\* C13: on a pixel format that is not 32 bits per pixel the init-framebuffer
\* callback allocates and publishes nothing and leaves the framebuffer state as it
\* is, the attempt fails, and the state goes from Connecting to a failure state and
\* not to Connected before the driver tries again.
C13_BitsPerPixelMismatchFailsAttempt ==
    /\ [][BitsPerPixelMismatch =>
            /\ heap' = heap /\ m_image' = m_image /\ frameBuffer' = 0
            /\ m_framebufferState' = m_framebufferState
            /\ ~clientInitialized'
            /\ m_state = "Connecting"]_vars
    /\ [][(pc \in { "est_initret", "est_term" } /\ ~clientInitialized)
            => pc' # "est_conn" /\ m_state' # "Connected"]_vars
    /\ [][(pc = "est_fail" /\ pc' # pc)
            => /\ m_state' \in { "HostOffline", "ServerNotRunning",
                                 "AuthenticationFailed", "ConnectionFailed" }
               /\ pc' = "est_backoff"]_vars

\* C14: while Connected with a framebuffer update interval > 0 and no server
\* message arriving, full update requests keep being sent: the silence since the
\* last one (or since the connection was established) never lasts longer than the
\* watchdog limit plus the two waits of one pump iteration.
C14_FullRequestEveryWatchdogPeriod ==
    ( /\ timed /\ m_state = "Connected" /\ m_framebufferUpdateInterval > 0
      /\ pc \in { "hc_loop", "hc_wait", "hc_idle", "hc_rate", "hc_sleep" } )
        => sinceFullRequest
             <= WatchdogLimit(m_framebufferUpdateInterval) + 2 * MaxTick

\* a step in which scaledFramebuffer() returns: its result is m_scaledFramebuffer'
ScaledFramebufferReturns ==
    \/ RescaleBegin /\ upc' = "idle"
    \/ RescaleFlag /\ upc' = "idle"
    \/ RescaleScale /\ upc' = "idle"
    \/ RescaleClear

\* C15: scaledFramebuffer() returns an image of the size set by setScaledSize if
\* the framebuffer state is Valid and that size is not empty, and an empty image
\* otherwise. Stated for the calls that return while the driver thread does not
\* run, so that the framebuffer state does not change during the call.
C15_ScaledFramebufferHasScaledSize ==
    [][(ScaledFramebufferReturns /\ pc \in { "idle", "finished" })
         => m_scaledFramebuffer' =
              IF m_framebufferState = "Valid" /\ m_scaledSize # 0
              THEN m_scaledSize ELSE 0]_vars

\* the driver thread is in handleConnection, or in a callback or in sendEvents
\* called from it
InPump ==
    \/ pc \in { "hc_loop", "hc_wait", "hc_msg", "hc_more", "hc_idle", "hc_rate",
                "hc_sleep", "cb_emit", "ffu_state", "ffu_flag",
                "se_lock", "se_test", "se_fire" }
    \/ hookFrom = "pump"

\* C16: a restart() issued while the driver is in the message pump makes the pump
\* exit and the driver reconnect: unless stop() intervenes, it reaches
\* establishConnection's clearing of RestartConnection, having released the client
\* and published Disconnected and Connecting on the way.
C16_RestartReconnects ==
    (InPump /\ m_state = "Connected"
       /\ IsControlFlagSet(m_controlFlags, "RestartConnection"))
        ~> \/ pc = "est_restart" /\ m_state = "Connecting" /\ m_client = "nullptr"
           \/ IsControlFlagSet(m_controlFlags, "TerminateThread")

\* C17: once stopAndDeleteLater() has returned and the driver thread is not
\* running, the destruction of the object has been scheduled exactly once.
C17_DeletionScheduledOnce ==
    /\ deleteScheduled <= 1
    /\ (deleteRequested /\ upc = "idle" /\ ~IsRunning(pc)) => deleteScheduled = 1

\* C18: no thread other than the driver accesses the client structure while the
\* driver releases it: a thread that is about to write the client's settings in
\* setQuality or setUseRemoteCursor writes into a client that still exists.
C18_NoForeignAccessToReleasedClient ==
    \A p \in Producers : ppc[p] = "setting" => (m_client # "nullptr" /\ clientAlive)

\* the driver thread is blocked in m_updateIntervalSleeper.wait()
Sleeping(p) == p \in { "est_wait", "hc_sleep" }

\* C19: stop(), restart() and an accepted enqueueEvent each end a sleep of the
\* driver on the condition variable: the driver is never left sleeping while
\* TerminateThread or RestartConnection is set, and it does not stay asleep over
\* a step that sets one of them or appends an event.
C19_RequestsEndEverySleep ==
    /\ [](Sleeping(pc) => /\ ~IsControlFlagSet(m_controlFlags, "TerminateThread")
                          /\ ~IsControlFlagSet(m_controlFlags, "RestartConnection"))
    /\ [][(/\ Sleeping(pc)
           /\ \/ m_controlFlags' \ m_controlFlags
                    \in { { "TerminateThread" }, { "RestartConnection" } }
              \/ appended' # appended)
            => ~Sleeping(pc')]_vars

\* closeConnection has completed and establishConnection has not begun again
TornDown == pc \in { "run_check", "run_exit", "run_return", "finished" }

\* C20: the framebuffer state is Invalid on construction and whenever
\* closeConnection has completed (Disconnected, client released); it becomes
\* Initialized only in a successful initFrameBuffer and Valid only in
\* finishFrameBufferUpdate, from Initialized.
C20_FramebufferStateInvalidAfterTearDown ==
    /\ [](pc = "idle" => m_framebufferState = "Invalid")
    /\ []((TornDown /\ m_state = "Disconnected" /\ m_client = "nullptr")
            => m_framebufferState = "Invalid")
    /\ [][(m_framebufferState' = "Initialized" /\ m_framebufferState # "Initialized")
            => (pc = "ifb_state" /\ clientAlive)]_vars
    /\ [][(m_framebufferState' = "Valid" /\ m_framebufferState # "Valid")
            => (pc = "ffu_state" /\ m_framebufferState = "Initialized")]_vars

\* C21: after updateEncodingSettingsFromQuality with quality Q, compressLevel is 9,
\* enableJPEG is (Q # Highest), qualityLevel is 9, 7, 5, 3, 0 for Highest, High,
\* Medium, Low, Lowest, and the encodings are the lossless list for Highest and
\* "tight zywrle zrle ultra" otherwise, whatever the settings were before.
C21_EncodingSettingsFollowQuality ==
    encodingsFrom # "none" =>
        /\ appData.compressLevel = 9
        /\ appData.enableJPEG = (encodingsFrom # "Highest")
        /\ appData.qualityLevel =
              [ Highest |-> 9, High |-> 7, Medium |-> 5, Low |-> 3, Lowest |-> 0 ]
                  [encodingsFrom]
        /\ appData.encodingsString =
              IF encodingsFrom = "Highest"
              THEN "zrle ultra copyrect hextile zlib corre rre raw"
              ELSE "tight zywrle zrle ultra"

\* the settings were updated from quality Low
C21_Witness ==
    encodingsFrom = "Low" /\ appData.qualityLevel = 3 /\ appData.enableJPEG

\* C22: setHost with a string that matches none of the six patterns stores the
\* string as host and leaves the port as it was ("example.local" is such a
\* string); setPort with a negative value leaves the port as it was; and
\* establishConnection gives the client the default port while the port is
\* negative.
C22_BareHostKeepsPort ==
    /\ (lastOp = "setHost" /\ \A n \in 1..6 : ~PatternMatches(n, hostArg))
          => (m_host = hostArg /\ m_port = portBefore)
    /\ (lastOp = "setHost"
          /\ hostArg = << "e", "x", "a", "m", "p", "l", "e", ".", "l", "o", "c", "a", "l" >>)
          => (m_host = hostArg /\ m_port = portBefore)
    /\ (lastOp = "setPort" /\ portArg < 0) => m_port = portBefore
    /\ (lastOp = "establish" /\ m_port < 0) => serverPort = m_defaultPort

\* establishConnection after setHost( "example.local" ) and no port set
C22_Witness ==
    /\ lastOp = "establish"
    /\ serverHost = << "e", "x", "a", "m", "p", "l", "e", ".", "l", "o", "c", "a", "l" >>
    /\ m_port = -1
    /\ serverPort = m_defaultPort

\* C23: setHost with a string that matches a pattern stores the host capture of
\* the first pattern that matches, if it is not empty, and the value of its port
\* capture, if that is above 0; the host stored has no brackets for the bracketed
\* patterns and no ::ffff: prefix for the IPv4-mapped ones.
\* "[2001:db8::1]:5901" gives "2001:db8::1" and 5901, "::ffff:10.0.0.5:5900" gives
\* "10.0.0.5" and 5900.
C23_FirstMatchingNotationParsed ==
    lastOp = "setHost" =>
        /\ hostArg = << "[", "2", "0", "0", "1", ":", "d", "b", "8", ":", ":", "1", "]", ":", "5", "9", "0", "1" >>
             => /\ m_host = << "2", "0", "0", "1", ":", "d", "b", "8", ":", ":", "1" >>
                /\ m_port = 5901
        /\ hostArg = << ":", ":", "f", "f", "f", "f", ":", "1", "0", ".", "0", ".", "0", ".", "5", ":", "5", "9", "0", "0" >>
             => /\ m_host = << "1", "0", ".", "0", ".", "0", ".", "5" >>
                /\ m_port = 5900
        /\ \A n \in 1..6 :
             (PatternMatches(n, hostArg) /\ \A m \in 1..(n - 1) : ~PatternMatches(m, hostArg))
                => /\ m_host = IF CapturedHost(n, hostArg) # << >>
                               THEN CapturedHost(n, hostArg) ELSE hostArg
                   /\ m_port = IF ToInt(CapturedPort(n, hostArg)) > 0
                               THEN ToInt(CapturedPort(n, hostArg)) ELSE portBefore
                   /\ n \in { 3, 4 } => \A i \in 1..Len(m_host) : m_host[i] \notin { "[", "]" }
                   /\ n \in { 1, 2, 3 } => m_host[1] # ":"

\* setHost( "[2001:db8::1]:5901" ) on a connection whose port was 5900
C23_Witness ==
    /\ lastOp = "setHost"
    /\ hostArg = << "[", "2", "0", "0", "1", ":", "d", "b", "8", ":", ":", "1", "]", ":", "5", "9", "0", "1" >>
    /\ portBefore = 5900
    /\ m_port = 5901

\* C24: an iteration of the pump without a message sends a full request and
\* restarts the watchdog if the watchdog has reached its limit; else sends an
\* incremental request and restarts the watchdog if the interval is positive and
\* the watchdog exceeds it; else clears TriggerFramebufferUpdate if it is set; the
\* flag is cleared nowhere else, and while Connected a set flag is eventually
\* cleared.
C24_OneRequestPerIteration ==
    /\ [][(pc = "hc_idle" /\ pc' # pc) =>
            IF m_framebufferUpdateWatchdog
                 >= Max(2 * m_framebufferUpdateInterval, m_framebufferUpdateWatchdogTimeout)
            THEN /\ m_framebufferUpdateWatchdog' = 0 /\ sinceFullRequest' = 0
                 /\ m_controlFlags' = m_controlFlags
            ELSE IF /\ m_framebufferUpdateInterval > 0
                    /\ m_framebufferUpdateWatchdog > m_framebufferUpdateInterval
            THEN /\ m_framebufferUpdateWatchdog' = 0
                 /\ m_controlFlags' = m_controlFlags
                 /\ sinceFullRequest' = sinceFullRequest
            ELSE /\ m_controlFlags' = m_controlFlags \ { "TriggerFramebufferUpdate" }
                 /\ m_framebufferUpdateWatchdog' = m_framebufferUpdateWatchdog
                 /\ sinceFullRequest' = sinceFullRequest]_vars
    /\ [][("TriggerFramebufferUpdate" \in m_controlFlags
            /\ "TriggerFramebufferUpdate" \notin m_controlFlags')
            => (pc = "hc_idle" /\ pc' = "hc_rate")]_vars
    /\ (m_state = "Connected" /\ "TriggerFramebufferUpdate" \in m_controlFlags)
          ~> (m_state # "Connected" \/ "TriggerFramebufferUpdate" \notin m_controlFlags)

\* C25: the driver holds the event-queue mutex only between the lock in
\* sendEvents and the unlock after the emptiness test or the dequeue: never while
\* an event is fired, and never after sendEvents has returned.
C25_QueueMutexFreeDuringFire ==
    /\ pc = "se_fire" => m_eventQueueMutex = "free"
    /\ m_eventQueueMutex = "driver" => pc = "se_test"

\* an event is being fired while a producer is about to append another one
C25_Witness ==
    /\ pc = "se_fire" /\ event # 0 /\ m_eventQueueMutex = "free"
    /\ \E p \in Producers : ppc[p] = "append"

\* C26: the pump is left without a state being published or an event being
\* taken; closeConnection then publishes Disconnected with the client released;
\* unless TerminateThread is set, run() calls establishConnection, which publishes
\* Connecting and takes a fresh client. Connected is only ever followed by
\* Disconnected and Disconnected by Connecting: no failure state is published
\* for a connection that broke.
C26_BrokenConnectionReconnects ==
    /\ [][(pc' = "close" /\ pc # "close")
            => /\ m_state = "Connected" \/ IsControlFlagSet(m_controlFlags, "TerminateThread")
               /\ UNCHANGED << m_state, m_eventQueue, eventLog, event >>]_vars
    /\ [][(pc \in { "close", "close_null" } /\ pc' # pc)
            => /\ pc' \in { "close_null", "close_state" }
               /\ UNCHANGED << m_state, m_eventQueue, eventLog, event >>]_vars
    /\ [][(pc = "close_state" /\ pc' # pc)
            => /\ m_client = "nullptr" /\ ~clientAlive
               /\ m_state' = "Disconnected" /\ pc' = "run_check"]_vars
    /\ [][(pc = "run_check" /\ pc' # pc
             /\ ~IsControlFlagSet(m_controlFlags, "TerminateThread"))
            => pc' = "est_state"]_vars
    /\ [][(pc = "est_state" /\ pc' # pc) => m_state' = "Connecting"]_vars
    /\ [][(pc = "est_getclient" /\ pc' # pc)
            => (m_client' = "client" /\ clientAlive' /\ clientData' = "nullptr")]_vars
    /\ [][(m_state = "Connected" /\ m_state' # m_state)
            => m_state' = "Disconnected"]_vars
    /\ [][(m_state = "Disconnected" /\ m_state' # m_state)
            => m_state' = "Connecting"]_vars

\* the pump has just been left with neither RestartConnection nor
\* TerminateThread set, so after a failed wait or a failed message handler, and
\* with an event still queued
C26_Witness ==
    /\ pc = "close" /\ m_state = "Connected" /\ m_eventQueue # << >>
    /\ ~IsControlFlagSet(m_controlFlags, "TerminateThread")
    /\ ~IsControlFlagSet(m_controlFlags, "RestartConnection")

\* establishConnection between the classification of a failure and the next
\* attempt
BackingOff(p) == p \in { "est_backoff", "est_backoff_fb", "est_backoff_retry", "est_wait" }

\* C27: after a failed attempt the driver waits for the framebuffer update
\* interval if that is positive and for the connection retry interval otherwise:
\* the time-out it waits with is positive, and the next attempt begins only out
\* of the wait.
C27_BackoffBeforeEveryRetry ==
    /\ [][(pc = "est_backoff" /\ pc' # pc)
            => pc' = IF m_framebufferUpdateInterval > 0 THEN "est_backoff_fb"
                                                        ELSE "est_backoff_retry"]_vars
    /\ [][(pc \in { "est_backoff_fb", "est_backoff_retry" } /\ pc' # pc)
            => BackoffDuration(pc, m_framebufferUpdateInterval) > 0]_vars
    /\ [][(BackingOff(pc) /\ ~BackingOff(pc')) => pc = "est_wait"]_vars

\* the states establishConnection publishes after an attempt
AttemptOutcomes ==
    { "Connected", "HostOffline", "ServerNotRunning", "AuthenticationFailed",
      "ConnectionFailed" }

\* run has left its loop
ThreadExited == pc \in { "run_exit", "run_return", "finished" }

\* C28: with TerminateThread set when rfbInitClient has returned,
\* establishConnection returns without publishing Connected or a failure state
\* and without the back-off wait, and the pump that follows ends at once; once
\* the driver thread has left its loop the state is Disconnected and the client
\* is released.
C28_TerminateWinsOverErrors ==
    /\ [][(pc = "est_term" /\ IsControlFlagSet(m_controlFlags, "TerminateThread")
              /\ pc' # pc)
            => (pc' = "hc_loop" /\ m_state' = m_state)]_vars
    /\ [][(pc' \in { "est_conn", "est_class" } /\ pc' # pc)
            => (pc = "est_term"
                /\ ~IsControlFlagSet(m_controlFlags, "TerminateThread"))]_vars
    /\ [][(m_state' # m_state /\ m_state' \in AttemptOutcomes)
            => pc \in { "est_conn", "est_fail" }]_vars
    /\ [][(BackingOff(pc') /\ ~BackingOff(pc)) => pc = "est_fail"]_vars
    /\ [][(pc = "hc_loop" /\ IsControlFlagSet(m_controlFlags, "TerminateThread")
              /\ pc' # pc)
            => (pc' = "close" /\ m_state' = m_state)]_vars
    /\ [](ThreadExited => (m_state = "Disconnected" /\ m_client = "nullptr"
                           /\ ~clientAlive))

\* a failed attempt has returned under TerminateThread: establishConnection
\* is left with the state still Connecting
C28_Witness ==
    /\ pc = "hc_loop"
    /\ IsControlFlagSet(m_controlFlags, "TerminateThread")
    /\ m_state = "Connecting"
    /\ m_client = "nullptr"

\* C29: ScaledFramebufferNeedsUpdate is not lost: once a rescaleFramebuffer call
\* has returned, a scaled image that is older than the last completed
\* framebuffer update, or whose size is not the configured one, still has the
\* flag set, so that the next scaledFramebuffer() computes it again.
C29_ScaledDirtyFlagNeverLost ==
    /\ (upc = "idle" /\ pc \notin { "ffu_state", "ffu_flag" }
           /\ HasValidFramebuffer /\ m_scaledSize # 0
           /\ m_scaledFramebuffer # 0 /\ scaledOutdated)
         => IsControlFlagSet(m_controlFlags, "ScaledFramebufferNeedsUpdate")
    /\ (HasValidFramebuffer /\ m_scaledFramebuffer # m_scaledSize)
         => IsControlFlagSet(m_controlFlags, "ScaledFramebufferNeedsUpdate")

\* C30: the event queue is empty whenever a connection reaches Connected, so
\* that every event sendEvents fires was enqueued during the connection whose
\* client it is fired at.
C30_QueueEmptyAtConnected ==
    [][(m_state # "Connected" /\ m_state' = "Connected")
         => m_eventQueue' = << >>]_vars

=============================================================================
